---- MODULE Spec2Model ----
(***************************************************************************)
(* Model of the edge OCI registry's blob push path: upload sessions        *)
(* (uploads.go), the resumable multipart ingestion engine (multipart.go)   *)
(* and blob fetch (blobs.go), over a KV store and an S3-compatible object  *)
(* store.                                                                  *)
(*                                                                         *)
(* Bytes are not enumerated.  A payload is a prefix [base, len] of an      *)
(* abstract byte stream named base, and stored data is a sequence of       *)
(* segments <<base, lo, hi>> (the bytes lo..hi-1 of that stream), kept     *)
(* normalised (adjacent segments merged), so sizes keep their real values. *)
(* SHA-256 is modelled as an injective tag on the data it hashes.          *)
(* Object-store and KV keys are records [k, loc, h]; the "/"-to-"_"        *)
(* flattening of KV keys is injective on the keys used here and is left    *)
(* out.                                                                    *)
(***************************************************************************)
EXTENDS Integers, Sequences, FiniteSets, TLC

\* ------------------------------------------------------------ constants
MinPartSize == 5242880
PartSize == 16777216
IdentifyChunkSize == 1048576
MaxPartsPerRequest == 28
BackendRequestCap == 32
SessionLifetime == 3600       \* seconds from StartedAt to ExpiresAt
RateLimitWindow == 60
RateLimitMaxRequests == 100
DefaultPageSize == 100
MaxPageSize == 10000

\* ------------------------------------------------------------ bounds
MaxSessions == 2      \* upload sessions ever opened
MaxWorkers == 2       \* ingestion invocations in flight at once
MaxUploads == 3       \* multipart uploads the object store ever accepts
MaxFaults == 1        \* backend failures and host cancellations, in total
MaxCount == 3         \* invocations counted per checkpoint key
MaxChunks == 2        \* request bodies a client sends in one session
SmallLen == 4096      \* size of the small payload
MaxOver == 2          \* requests a client sends past the limit of a window
MaxLapses == 1        \* windows the clock moves on by
MaxHours == 2         \* times the lifetime of a session passes
MaxSigns == 4         \* signing calls of one instance
MaxItems == 3         \* tags in the list a client pages through
MaxPage == 3          \* largest page size a client asks for, short of the cap

Repos == {"r"}
MidLen == PartSize + 1
FullLen == PartSize * MaxPartsPerRequest
\* the payloads of Spec: empty, below the identification chunk, two parts
Payloads ==
    { [base |-> "A", len |-> 0],
      [base |-> "A", len |-> SmallLen],
      [base |-> "A", len |-> MidLen] }
\* the payloads of BigSpec: at the per-invocation part limit and one byte over
BigPayloads ==
    { [base |-> "A", len |-> FullLen],
      [base |-> "A", len |-> FullLen + 1] }
AtLimit == [base |-> "A", len |-> FullLen]

\* ------------------------------------------------------------ bytes
Min(a, b) == IF a < b THEN a ELSE b
\* a maximum that forgets the floor
maxUnfloored(a, b) == b

\* uploads.go 406-411
max(a, b) == IF a > b THEN a ELSE b

Bytes(p) == IF p.len = 0 THEN <<>> ELSE << <<p.base, 0, p.len>> >>

\* d1 followed by d2
Cat(d1, d2) ==
    IF d1 = <<>> THEN d2
    ELSE IF d2 = <<>> THEN d1
    ELSE LET a == d1[Len(d1)]
             b == d2[1]
         IN IF a[1] = b[1] /\ a[3] = b[2]
            THEN SubSeq(d1, 1, Len(d1) - 1) \o << <<a[1], a[2], b[3]>> >> \o Tail(d2)
            ELSE d1 \o d2

RECURSIVE Size(_)
Size(d) == IF d = <<>> THEN 0 ELSE (d[1][3] - d[1][2]) + Size(Tail(d))

\* a read that returns what one Read of the body gives, IdentifyChunkSize bytes
\* at most, where io.ReadFull reads on
ReadOnce(p, pos, n) == Min(Min(n, IdentifyChunkSize), p.len - pos)

\* io.ReadFull(body, buf) with len(buf) = n, the body at offset pos
ReadN(p, pos, n) == Min(n, p.len - pos)
ReadData(p, pos, n) ==
    IF ReadN(p, pos, n) = 0 THEN <<>> ELSE << <<p.base, pos, pos + ReadN(p, pos, n)>> >>

sha256Hex(d) == <<"sha256", d>>
Hash16(h) == <<"h16", h[2]>>

\* ------------------------------------------------------------ keys
NoKey == [k |-> "", loc |-> <<>>, h |-> <<>>]
\* a chunk key that is the temp location itself, without /data
ChunkKeyBare(loc) == [k |-> "", loc |-> loc, h |-> <<>>]
ChunkKey(loc) == [k |-> "uploads", loc |-> loc, h |-> <<>>]
TrimData(key) == key.loc
\* A digest is <<algorithm, hex>>, "sha256:<hex>" in the source; the hex string
\* stays abstract, and its substring from a up to b is Slice(hex, a, b).
HasSha256Prefix(digest) == digest[1] = "sha256"
DigestHash(digest) == digest[2]
Slice(hex, a, b) == <<hex, a, b>>

\* a final key that takes both directory levels from the first two characters
FinalKeyOneLevel(expectedDigest) ==
    LET digestHash == DigestHash(expectedDigest)
    IN [k |-> "blobs/sha256",
        loc |-> <<Slice(digestHash, 0, 2), Slice(digestHash, 0, 2)>>,
        h |-> digestHash]

\* uploads.go 261-262: the final key handleCompleteUpload writes
FinalKey(expectedDigest) ==
    LET digestHash == DigestHash(expectedDigest)
    IN [k |-> "blobs/sha256",
        loc |-> <<Slice(digestHash, 0, 2), Slice(digestHash, 2, 4)>>,
        h |-> digestHash]

\* s3auth.go 240-246
BlobKey(digest) ==
    IF ~HasSha256Prefix(digest) THEN NoKey
    ELSE LET hash == DigestHash(digest)
         IN [k |-> "blobs/sha256",
             loc |-> <<Slice(hash, 0, 2), Slice(hash, 2, 4)>>,
             h |-> hash]
StateKey(repo, h) == [k |-> "state", loc |-> <<repo>>, h |-> Hash16(h)]
TempLocation(name, uuid) == <<name, uuid>>


\* ------------------------------------------------------------ maps
EmptyMap == [x \in {} |-> 0]
Put(f, k, v) == [x \in (DOMAIN f) \cup {k} |-> IF x = k THEN v ELSE f[x]]
Del(f, k) == [x \in (DOMAIN f) \ {k} |-> f[x]]

\* the numbers of S in increasing order
SortSet(S) ==
    [i \in 1 .. Cardinality(S) |->
        CHOOSE x \in S : Cardinality({y \in S : y < x}) = i - 1]

\* ------------------------------------------------------------ records
NoPayload == [base |-> "", len |-> 0]
NoSession ==
    [UUID |-> 0, Repo |-> "", BytesReceived |-> 0, TempLocation |-> <<>>,
     ExpiresAt |-> 0]
NoState ==
    [S3UploadId |-> 0, S3Key |-> NoKey, CompletedParts |-> <<>>,
     NextPartNumber |-> 0, BytesUploaded |-> 0, ContentHash |-> <<>>]
NoResp == [kind |-> "", id |-> 0, etag |-> <<>>, parts |-> <<>>]
NoResult ==
    [nil |-> TRUE, BytesUploaded |-> 0, IsComplete |-> FALSE,
     State |-> NoState, CompletedKey |-> NoKey]
NoEng ==
    [ran |-> FALSE, res |-> "", bytes |-> 0, nreq |-> 0, ninit |-> 0,
     nparts |-> 0, read |-> 0, finalAtStart |-> FALSE, nth |-> 0,
     state |-> NoState, key |-> NoKey]
NoReply ==
    [op |-> "", uuid |-> 0, status |-> 0, code |-> "", range |-> -1,
     payload |-> NoPayload, digest |-> <<>>, data |-> <<>>, eng |-> NoEng,
     location |-> <<>>, ip |-> "", retryAfter |-> -1, reqs |-> <<>>,
     seq |-> 0]
NoCreds == [done |-> FALSE, err |-> FALSE, accessKey |-> "", secretKey |-> ""]
NoSigned ==
    [kind |-> "", failed |-> FALSE, payloadHash |-> <<>>, header |-> <<>>,
     body |-> <<>>, credential |-> ""]
NoLink == [n |-> 0, last |-> <<>>]
NoWalk == [items |-> <<>>, n |-> 0, pages |-> <<>>, link |-> NoLink, asked |-> FALSE]
IdleInv ==
    [pc |-> "idle", uuid |-> 0, name |-> "", session |-> NoSession,
     body |-> NoPayload, pos |-> 0, identifyN |-> 0, stateKey |-> NoKey,
     key |-> NoKey, uploadId |-> 0, state |-> NoState, existing |-> FALSE,
     bytesAlready |-> 0, parts |-> 0, partNumber |-> 0, partSize |-> 0,
     completedKey |-> NoKey, resp |-> NoResp,
     nreq |-> 0, ninit |-> 0, nparts |-> 0, finalAtStart |-> FALSE, nth |-> 0]

\* ------------------------------------------------------------ state
VARIABLES
    sessions,     \* KV uploads/<uuid>: uuid -> UploadSession
    nextUuid,     \* number of sessions opened so far
    objects,      \* object store: key -> data
    mpu,          \* object store multipart uploads, indexed by upload id
    kvMultipart,  \* KV multipart/<key>: MultipartState
    kvCompleted,  \* KV completed/<key>: object key
    inv,          \* ingestion invocations in flight, per worker
    faults,       \* backend failures and host cancellations so far
    reply,        \* the last reply sent (or invocation cancelled)
    sent,         \* history: uuid -> the bodies the client has sent, in order
    asm,          \* history: uuid -> payload assembled through the session
    stream,       \* history: uuid -> payload last streamed into the engine
    pushed,       \* history: the last 201 of PUT-complete
    finalized,    \* history: <<repo, payload>> assembled and then finalized
    interrupted,  \* history: <<state key, payload>> left incomplete with parts
    assembled,    \* history: <<state key, payload>> whose complete succeeded
    ingests,      \* history: state key -> invocations begun on it (to MaxCount)
    puts,         \* history: uuid -> status last answered to a PUT-complete for it
    rateLimitStore, \* the instance's map: client IP -> [Count, ResetTime]
    now,          \* the clock, in seconds
    window,       \* history: client IP -> its current window, as the client counts
    creds,        \* the instance's credentials cache: credsOnce, credsErr, the keys
    secretReads,  \* history: times the instance has opened the secret store
    signedReq,    \* the result of the last signing call
    signs,        \* signing calls so far
    walk          \* a client paging through a list: the list, the cursor, the pages

store == <<objects, mpu, kvMultipart, kvCompleted>>
pushHist == <<sent, asm, stream, pushed, finalized, interrupted, assembled,
              ingests>>
hist == <<pushHist, puts>>
limiter == <<rateLimitStore, now, window>>
signer == <<creds, secretReads, signedReq, signs>>
local == <<signer, walk>>
vars == <<sessions, nextUuid, objects, mpu, kvMultipart, kvCompleted, inv,
          faults, reply, sent, asm, stream, pushed, finalized, interrupted,
          assembled, ingests, puts, rateLimitStore, now, window, creds,
          secretReads, signedReq, signs, walk>>

Workers == 1 .. MaxWorkers

\* a lookup that takes a session past its ExpiresAt for unknown
SessionKnownUnexpired(u) == u \in DOMAIN sessions /\ now <= sessions[u].ExpiresAt

\* store.Lookup("uploads/<uuid>") found the session (uploads.go 114-118,
\* 244-248, 387-391)
SessionKnown(u) == u \in DOMAIN sessions
NoPush == [digest |-> <<>>, sent |-> <<>>, uuid |-> 0]

Init ==
    /\ sessions = EmptyMap
    /\ nextUuid = 0
    /\ objects = EmptyMap
    /\ mpu = <<>>
    /\ kvMultipart = EmptyMap
    /\ kvCompleted = EmptyMap
    /\ inv = [w \in Workers |-> IdleInv]
    /\ faults = 0
    /\ reply = NoReply
    /\ sent = EmptyMap
    /\ asm = EmptyMap
    /\ stream = EmptyMap
    /\ pushed = NoPush
    /\ finalized = {}
    /\ interrupted = {}
    /\ assembled = {}
    /\ ingests = EmptyMap
    /\ puts = EmptyMap
    /\ rateLimitStore = EmptyMap
    /\ now = 0
    /\ window = EmptyMap
    /\ creds = NoCreds
    /\ secretReads = 0
    /\ signedReq = NoSigned
    /\ signs = 0
    /\ walk = NoWalk

\* ------------------------------------------------------------ backend
\* What a backend request can come to: "ok" (the store serves it), "status"
\* (a 5xx answer, nothing done) or "error" (the send itself fails).
Outcomes == IF faults < MaxFaults THEN {"ok", "status", "error"} ELSE {"ok"}
\* the same, for a request sent after f failures
OutAt(f) == IF f < MaxFaults THEN {"ok", "status", "error"} ELSE {"ok"}
Failed(o) == IF o = "ok" THEN 0 ELSE 1
\* whether the object store stored the part of an upload-part request that came
\* to o: it did when it answered ok, it did not when it answered an error
\* status, and it may have when the send failed before the answer came back
Took(o) == IF o = "ok" THEN {TRUE} ELSE IF o = "error" THEN BOOLEAN ELSE {FALSE}

ETagOf(d) == <<"etag", d>>
Live(id) == id \in DOMAIN mpu /\ mpu[id].status = "live"

\* POST ?uploads
S3Initiate(key, ck) ==
    Append(mpu, [key |-> key, ck |-> ck, parts |-> EmptyMap, status |-> "live",
                 sentParts |-> <<>>])

\* PUT ?partNumber=n&uploadId=id
S3UploadPart(id, n, d) ==
    IF Live(id) THEN [mpu EXCEPT ![id].parts = Put(@, n, d)] ELSE mpu

\* the part numbers of the upload-part requests sent for an upload id, in the
\* order sent, whatever became of them
NotePart(m, id, n) ==
    IF id \in DOMAIN m THEN [m EXCEPT ![id].sentParts = Append(@, n)] ELSE m

\* GET ?uploadId=id
S3ListParts(id) ==
    LET ns == SortSet(DOMAIN mpu[id].parts)
    IN [i \in 1 .. Len(ns) |->
          [PartNumber |-> ns[i], ETag |-> ETagOf(mpu[id].parts[ns[i]]),
           Size |-> Size(mpu[id].parts[ns[i]])]]

\* POST ?uploadId=id with the part list: whether the store accepts it
S3CompleteOk(id, ps) ==
    /\ Live(id)
    /\ Len(ps) > 0
    /\ \A i \in 1 .. Len(ps) :
         /\ ps[i].PartNumber \in DOMAIN mpu[id].parts
         /\ ps[i].ETag = ETagOf(mpu[id].parts[ps[i].PartNumber])
         /\ i < Len(ps) => ps[i].PartNumber < ps[i + 1].PartNumber
         /\ i < Len(ps) => Size(mpu[id].parts[ps[i].PartNumber]) >= MinPartSize

\* the object a completed upload becomes: the listed parts, in list order
RECURSIVE S3AssembleTo(_, _, _)
S3AssembleTo(id, ps, i) ==
    IF i = 0 THEN <<>>
    ELSE Cat(S3AssembleTo(id, ps, i - 1), mpu[id].parts[ps[i].PartNumber])
\* an assembly that keeps the first listed part only
S3AssembleFirst(id, ps) == S3AssembleTo(id, ps, 1)

S3Assemble(id, ps) == S3AssembleTo(id, ps, Len(ps))


\* The object store drops a multipart upload that was left incomplete (the
\* lifecycle rule for incomplete uploads, or an abort by an operator): the
\* upload id is unknown from then on.  No invocation is working on it.
S3Expire(id) ==
    /\ Live(id)
    /\ \A w \in Workers : inv[w].uploadId # id /\ inv[w].resp.id # id
    /\ mpu' = [mpu EXCEPT ![id].status = "aborted"]
    /\ UNCHANGED <<sessions, nextUuid, objects, kvMultipart, kvCompleted, inv,
                   faults, reply, hist, limiter, local>>

\* headRequest / GET against the object store: the response kind
Answer(o, found) ==
    IF o = "error" THEN "error"
    ELSE IF o = "ok" /\ found THEN "ok200" ELSE "non200"

\* ------------------------------------------------------------ replies
\* seq tells a reply from the same reply sent again
Again(rp) == IF rp = [reply EXCEPT !.seq = 0] /\ reply.seq = 0
             THEN [rp EXCEPT !.seq = 1] ELSE rp
Rep(op, uuid, status, code, range, payload, eng) ==
    Again([op |-> op, uuid |-> uuid, status |-> status, code |-> code,
           range |-> range, payload |-> payload, digest |-> <<>>, data |-> <<>>,
           eng |-> eng, location |-> <<>>, ip |-> "", retryAfter |-> -1,
           reqs |-> <<>>,
           seq |-> 0])

\* the Location headers: of an upload session and of a blob
UploadLocation(name, uuid) == <<"v2", name, "blobs", "uploads", uuid>>
BlobLocation(name, digest) == <<"v2", name, "blobs", digest>>

Eng(r, res) ==
    [ran |-> TRUE, res |-> res, bytes |-> 0, nreq |-> r.nreq, ninit |-> r.ninit,
     nparts |-> r.nparts, read |-> r.pos, finalAtStart |-> r.finalAtStart,
     nth |-> r.nth, state |-> NoState, key |-> NoKey]

RECURSIVE Flat(_)
Flat(ds) == IF ds = <<>> THEN <<>> ELSE Cat(ds[1], Flat(Tail(ds)))
SentBytes(u) == IF u \in DOMAIN sent THEN Flat(sent[u]) ELSE <<>>

\* ------------------------------------------------------------ sessions
\* handleInitiateUpload: POST /v2/<name>/blobs/uploads/
\* uploads.go 35-67, entered with f backend failures so far and answering the
\* request op
InitiateUpload(op, name, f) ==
    /\ nextUuid < MaxSessions
    /\ LET uploadUUID == nextUuid + 1
           session == [UUID |-> uploadUUID, Repo |-> name, BytesReceived |-> 0,
                       TempLocation |-> TempLocation(name, uploadUUID),
                       ExpiresAt |-> now + SessionLifetime]
       IN \E o \in OutAt(f) \ {"status"} :
            /\ nextUuid' = uploadUUID
            /\ faults' = f + Failed(o)
            /\ IF o = "ok"
               THEN /\ sessions' = Put(sessions, uploadUUID, session)
                    /\ reply' = Again([Rep(op, uploadUUID, 202, "", 0, NoPayload, NoEng)
                                   EXCEPT !.location = UploadLocation(name, uploadUUID),
                                          !.seq = 0])
               ELSE /\ sessions' = sessions
                    /\ reply' = Rep(op, uploadUUID, 500, "UNSUPPORTED", -1,
                                    NoPayload, NoEng)
    /\ UNCHANGED <<store, inv, hist, limiter, local>>

handleInitiateUpload(name) == InitiateUpload("post", name, faults)

\* ------------------------------------------------------------ engine
SaveMultipartState(k, state) == Put(kvMultipart, k, state)
\* a delete that leaves the checkpoint where it is
KeepMultipartState(k) == kvMultipart

DeleteMultipartState(k) == Del(kvMultipart, k)
\* a completion that writes no record
SkipCompletedUpload(k, key) == kvCompleted

SaveCompletedUpload(k, key) == Put(kvCompleted, k, key)
\* a purge that leaves the record where it is
KeepCompletedUpload(k) == kvCompleted

DeleteCompletedUpload(k) == Del(kvCompleted, k)

Keep(w, r) ==
    /\ inv' = [inv EXCEPT ![w] = r]
    /\ UNCHANGED <<sessions, reply, hist, limiter, local>>

Result(bytes, complete, state, ckey) ==
    [nil |-> FALSE, BytesUploaded |-> bytes, IsComplete |-> complete,
     State |-> state, CompletedKey |-> ckey]

\* uploads.go 175-182: the session a progress report is stored as
ProgressSession(session, res) ==
    [session EXCEPT
       !.BytesReceived = res.BytesUploaded,
       !.TempLocation =
           IF res.State # NoState /\ res.State.S3Key # NoKey
           THEN TrimData(res.State.S3Key)
           ELSE IF res.CompletedKey # NoKey THEN TrimData(res.CompletedKey)
           ELSE @]

\* uploads.go 159-173: the session an engine result carrying a key is stored as
EarlyExitSession(session, res) ==
    [session EXCEPT !.TempLocation = TrimData(res.CompletedKey),
                    !.BytesReceived = 1]

\* uploads.go 154-157: the status answered when the engine returns an error
EngineErrorStatus(res) == 500

\* The engine returns (res, err) to handleUploadChunk, which stores the session
\* and replies (uploads.go 153-195, 227-234).
Return(w, r, res, err) ==
    LET what == IF err THEN "error"
                ELSE IF res.IsComplete THEN "complete" ELSE "incomplete"
        eng == [Eng(r, what) EXCEPT !.bytes = res.BytesUploaded,
                                    !.state = res.State,
                                    !.key = res.CompletedKey]
        early == res.CompletedKey # NoKey /\ res.IsComplete
        done == ~err /\ early /\ res.BytesUploaded > 0
        left == ~res.nil /\ ~res.IsComplete /\ res.State # NoState
                /\ Len(res.State.CompletedParts) > 0
    IN /\ inv' = [inv EXCEPT ![w] = IdleInv]
       /\ IF err
          THEN /\ sessions' = sessions
               /\ reply' = Rep("patch", r.uuid, EngineErrorStatus(res), "UNSUPPORTED",
                               -1, r.body, eng)
          ELSE IF early
          THEN /\ sessions' = Put(sessions, r.uuid, EarlyExitSession(r.session, res))
               /\ reply' = Rep("patch", r.uuid, 202, "", 0, r.body, eng)
          ELSE IF res.BytesUploaded > 0
          THEN /\ sessions' = Put(sessions, r.uuid, ProgressSession(r.session, res))
               /\ reply' = Rep("patch", r.uuid, 202, "", res.BytesUploaded - 1,
                               r.body, eng)
          ELSE /\ sessions' = sessions
               /\ reply' = Rep("patch", r.uuid, 202, "",
                               max(0, r.session.BytesReceived - 1), r.body, eng)
       /\ interrupted' = IF left THEN interrupted \cup {<<r.stateKey, r.body>>}
                         ELSE interrupted
       /\ assembled' = IF done THEN assembled \cup {<<r.stateKey, r.body>>}
                       ELSE assembled
       /\ asm' = IF done THEN Put(asm, r.uuid, r.body) ELSE asm
       /\ UNCHANGED <<sent, stream, pushed, finalized, ingests, puts, limiter, local>>

\* multipart.go 630-669: send initiate-multipart for r.key
SendInitiate(w, r) ==
    /\ Len(mpu) < MaxUploads
    /\ \E o \in Outcomes :
         /\ faults' = faults + Failed(o)
         /\ mpu' = IF o = "ok" THEN S3Initiate(r.key, r.stateKey) ELSE mpu
         /\ Keep(w, [r EXCEPT !.pc = "awaitInit", !.existing = FALSE,
                              !.nreq = @ + 1, !.ninit = @ + 1,
                              !.resp = [NoResp EXCEPT !.kind = Answer(o, TRUE),
                                                      !.id = Len(mpu) + 1]])
    /\ UNCHANGED objects

\* multipart.go 554-582: look the checkpoint up; list its parts or initiate
ResumeProbe(w, r) ==
    LET existingState ==
            IF r.stateKey \in DOMAIN kvMultipart THEN kvMultipart[r.stateKey]
            ELSE NoState
    IN /\ IF existingState # NoState
             /\ existingState.ContentHash = r.stateKey.h
          THEN \E o \in Outcomes :
                 /\ faults' = faults + Failed(o)
                 /\ mpu' = mpu
                 /\ objects' = objects
                 /\ Keep(w, [r EXCEPT
                        !.pc = "awaitList", !.existing = TRUE,
                        !.state = existingState,
                        !.uploadId = existingState.S3UploadId,
                        !.key = existingState.S3Key,
                        !.nreq = @ + 1,
                        !.resp = [NoResp EXCEPT
                            !.kind = Answer(o, Live(existingState.S3UploadId)),
                            !.parts = IF o = "ok" /\ Live(existingState.S3UploadId)
                                      THEN S3ListParts(existingState.S3UploadId)
                                      ELSE <<>>]])
          ELSE SendInitiate(w, r)
       /\ kvMultipart' = kvMultipart


\* sort.Slice by PartNumber (multipart.go 830-832)
SortParts(ps) ==
    LET Before(l, j) == \/ ps[l].PartNumber < ps[j].PartNumber
                        \/ ps[l].PartNumber = ps[j].PartNumber /\ l < j
    IN [i \in 1 .. Len(ps) |->
          ps[CHOOSE j \in 1 .. Len(ps) :
                Cardinality({l \in 1 .. Len(ps) : Before(l, j)}) = i - 1]]

\* a main loop that stops one part short of the limit
LoopGuardShort(parts) == parts < MaxPartsPerRequest - 1

\* a main loop that goes round once more at the limit
LoopGuardLong(parts) == parts <= MaxPartsPerRequest

\* multipart.go 730: whether the main loop goes round again
LoopGuard(parts) == parts < MaxPartsPerRequest

\* multipart.go 797-800: the tail probe reads one byte
HasMoreData(r) == ReadN(r.body, r.pos, 1) > 0

\* multipart.go 730-864, from the top of the main loop to the next request sent
\* or to the return: one more upload-part, or the tail probe followed by a save
\* and return, an abort, or complete-multipart.
MainLoop(w, r) ==
    LET n == ReadN(r.body, r.pos, PartSize)
        partData == ReadData(r.body, r.pos, PartSize)
        partNumber == r.state.NextPartNumber
        sorted == SortParts(r.state.CompletedParts)
    IN IF LoopGuard(r.parts) /\ n > 0
       THEN \E o \in Outcomes : \E took \in Took(o) :
              /\ faults' = faults + Failed(o)
              /\ mpu' = NotePart(IF took
                                  THEN S3UploadPart(r.uploadId, partNumber, partData)
                                  ELSE mpu, r.uploadId, partNumber)
              /\ Keep(w, [r EXCEPT
                     !.pc = "awaitPart", !.pos = @ + n, !.partNumber = partNumber,
                     !.partSize = n, !.nreq = @ + 1, !.nparts = @ + 1,
                     !.resp = [NoResp EXCEPT !.kind = Answer(o, Live(r.uploadId)),
                                             !.etag = ETagOf(partData)]])
              /\ UNCHANGED <<objects, kvMultipart, kvCompleted>>
       ELSE IF HasMoreData(r)
       THEN /\ kvMultipart' = SaveMultipartState(r.stateKey, r.state)
            /\ Return(w, [r EXCEPT !.pos = @ + 1],
                      Result(r.state.BytesUploaded, FALSE, r.state, NoKey), FALSE)
            /\ UNCHANGED <<objects, mpu, kvCompleted, faults>>
       ELSE IF Len(r.state.CompletedParts) = 0
       THEN \E o \in Outcomes :
              /\ faults' = faults + Failed(o)
              /\ mpu' = IF o = "ok" /\ Live(r.uploadId)
                        THEN [mpu EXCEPT ![r.uploadId].status = "aborted"] ELSE mpu
              /\ kvMultipart' = DeleteMultipartState(r.stateKey)
              /\ Return(w, [r EXCEPT !.nreq = @ + 1],
                        Result(0, TRUE, NoState, NoKey), FALSE)
              /\ UNCHANGED <<objects, kvCompleted>>
       ELSE \E o \in Outcomes :
              LET good == o = "ok" /\ S3CompleteOk(r.uploadId, sorted)
              IN /\ faults' = faults + Failed(o)
                 /\ mpu' = IF good THEN [mpu EXCEPT ![r.uploadId].status = "completed"]
                           ELSE mpu
                 /\ objects' = IF good
                               THEN Put(objects, mpu[r.uploadId].key,
                                        S3Assemble(r.uploadId, sorted))
                               ELSE objects
                 /\ Keep(w, [r EXCEPT
                        !.pc = "awaitComplete", !.nreq = @ + 1,
                        !.state = [@ EXCEPT !.CompletedParts = sorted],
                        !.resp = [NoResp EXCEPT !.kind = Answer(o, good)]])
                 /\ UNCHANGED <<kvMultipart, kvCompleted>>

\* the fast path taken only when the request is not chunked
FastPathUnchunked(session, chunked) == session.BytesReceived > 0 /\ ~chunked

\* uploads.go 138: the fast path of a PATCH
FastPath(session, chunked) == session.BytesReceived > 0 /\ chunked

\* uploads.go 142: the last byte the fast path reports in Range
FastPathRange(session) == session.BytesReceived - 1

\* the lowest idle worker takes a new invocation
Free(w) == inv[w].pc = "idle" /\ \A v \in Workers : v < w => inv[v].pc # "idle"

\* multipart.go 507-552 as entered by handleUploadChunk: identify the content,
\* look the completed-content record up and verify it with a HEAD, else probe.
Ingest(w, u, name, p, session) ==
    LET identifyN == ReadN(p, 0, IdentifyChunkSize)
        contentHash == sha256Hex(ReadData(p, 0, IdentifyChunkSize))
        stateKey == StateKey(name, contentHash)
        completedKey == IF stateKey \in DOMAIN kvCompleted THEN kvCompleted[stateKey]
                        ELSE NoKey
        nth == Min(MaxCount, 1 + IF stateKey \in DOMAIN ingests
                                 THEN ingests[stateKey] ELSE 0)
        accepted == IF u \in DOMAIN sent THEN sent[u] ELSE <<>>
        again == u \in DOMAIN stream /\ stream[u] = p
        r == [IdleInv EXCEPT
                !.uuid = u, !.name = name, !.session = session, !.body = p,
                !.pos = identifyN, !.identifyN = identifyN, !.stateKey = stateKey,
                !.key = ChunkKey(session.TempLocation),
                !.completedKey = completedKey,
                !.finalAtStart = <<name, p>> \in finalized,
                !.nth = nth]
    IN /\ Free(w)
       /\ IF completedKey # NoKey
          THEN \E o \in Outcomes :
                 /\ faults' = faults + Failed(o)
                 /\ inv' = [inv EXCEPT ![w] =
                       [r EXCEPT !.pc = "awaitHead", !.nreq = 1,
                                 !.resp = [NoResp EXCEPT
                                    !.kind = Answer(o, completedKey \in DOMAIN objects)]]]
          ELSE /\ faults' = faults
               /\ inv' = [inv EXCEPT ![w] = [r EXCEPT !.pc = "probe"]]
       /\ stream' = Put(stream, u, p)
       /\ sent' = IF again THEN sent ELSE Put(sent, u, Append(accepted, Bytes(p)))
       /\ ingests' = Put(ingests, stateKey, nth)
       /\ UNCHANGED <<sessions, reply, store, asm, pushed, finalized,
                      interrupted, assembled, puts, limiter, local>>

\* handleUploadChunk: PATCH /v2/<name>/blobs/uploads/<uuid> with body p, sent
\* chunked or with Content-Length p.len
handleUploadChunk(w, u, name, p, chunked) ==
    LET session == sessions[u]
        contentLengthInt == IF chunked THEN 0 ELSE p.len
        chunkKey == ChunkKey(session.TempLocation)
        accepted == IF u \in DOMAIN sent THEN sent[u] ELSE <<>>
    IN /\ nextUuid' = nextUuid
       /\ IF ~SessionKnown(u)
          THEN /\ w = 1
               /\ reply' = Rep("patch", u, 404, "BLOB_UPLOAD_UNKNOWN", -1, NoPayload,
                               NoEng)
               /\ UNCHANGED <<sessions, store, inv, faults, hist, limiter, local>>
          ELSE IF FastPath(session, chunked)
          THEN /\ w = 1
               /\ reply' = Rep("patch", u, 202, "", FastPathRange(session), p, NoEng)
               /\ UNCHANGED <<sessions, store, inv, faults, hist, limiter, local>>
          ELSE IF contentLengthInt = 0 /\ chunked
          THEN IF ReadN(p, 0, IdentifyChunkSize) = 0
               THEN /\ w = 1
                    /\ reply' = Rep("patch", u, 202, "",
                                    max(0, session.BytesReceived - 1), p,
                                    [NoEng EXCEPT !.ran = TRUE, !.res = "complete"])
                    /\ UNCHANGED <<sessions, store, inv, faults, hist, limiter, local>>
               ELSE Ingest(w, u, name, p, session)
          ELSE IF contentLengthInt > 0
          THEN /\ w = 1
               /\ \E o \in Outcomes :
                    /\ faults' = faults + Failed(o)
                    /\ IF o = "ok"
                       THEN /\ objects' = Put(objects, chunkKey, Bytes(p))
                            /\ sessions' = Put(sessions, u,
                                  [session EXCEPT !.BytesReceived = @ + contentLengthInt])
                            /\ sent' = Put(sent, u, Append(accepted, Bytes(p)))
                            /\ reply' = Rep("patch", u, 202, "",
                                  max(0, session.BytesReceived + contentLengthInt - 1),
                                  NoPayload, [NoEng EXCEPT !.nreq = 1])
                       ELSE /\ UNCHANGED <<objects, sessions, sent>>
                            /\ reply' = Rep("patch", u, 500, "UNSUPPORTED", -1, NoPayload,
                                            [NoEng EXCEPT !.nreq = 1])
               /\ UNCHANGED <<mpu, kvMultipart, kvCompleted, inv, asm, stream,
                              pushed, finalized, interrupted, assembled, ingests,
                              puts, limiter, local>>
          ELSE /\ w = 1
               /\ reply' = Rep("patch", u, 202, "",
                               max(0, session.BytesReceived - 1), NoPayload, NoEng)
               /\ UNCHANGED <<sessions, store, inv, faults, hist, limiter, local>>


\* multipart.go 554-582, reached with no completed-content record
Probe(w) ==
    /\ inv[w].pc = "probe"
    /\ ResumeProbe(w, inv[w])
    /\ UNCHANGED <<kvCompleted, nextUuid>>

\* multipart.go 540-552: the answer to the verifying HEAD
OnHead(w) ==
    LET r == inv[w]
    IN /\ r.pc = "awaitHead"
       /\ nextUuid' = nextUuid
       /\ IF r.resp.kind = "ok200"
          THEN /\ Return(w, r, Result(0, TRUE, NoState, r.completedKey), FALSE)
               /\ UNCHANGED <<store, faults>>
          ELSE /\ kvCompleted' = DeleteCompletedUpload(r.stateKey)
               /\ ResumeProbe(w, r)

\* multipart.go 583-604: the checkpoint rebuilt from what list-parts returned
RECURSIVE SumSizesTo(_, _)
SumSizesTo(parts, i) == IF i = 0 THEN 0 ELSE parts[i].Size + SumSizesTo(parts, i - 1)
SumSizes(parts) == SumSizesTo(parts, Len(parts))

\* a resume that trusts the checkpoint read from the KV store
RebuiltFromCheckpoint(state, parts) == state

Rebuilt(state, parts) ==
    [state EXCEPT
       !.CompletedParts = [i \in 1 .. Len(parts) |->
                             [PartNumber |-> parts[i].PartNumber, ETag |-> parts[i].ETag]],
       !.BytesUploaded = SumSizes(parts),
       !.NextPartNumber = IF Len(parts) > 0 THEN parts[Len(parts)].PartNumber + 1 ELSE @]

\* multipart.go 612: whether a resume returns at once with the progress found
\* a resume that always goes on to upload from the request's body
FastResumeOff(existing, bytesAlreadyUploaded) == FALSE

FastResume(existing, bytesAlreadyUploaded) == existing /\ bytesAlreadyUploaded > 0

\* multipart.go 578-625: the answer to list-parts
OnList(w) ==
    LET r == inv[w]
        state == Rebuilt(r.state, r.resp.parts)
    IN /\ r.pc = "awaitList"
       /\ nextUuid' = nextUuid
       /\ IF r.resp.kind # "ok200"
          THEN /\ kvMultipart' = DeleteMultipartState(r.stateKey)
               /\ SendInitiate(w, r)
               /\ kvCompleted' = kvCompleted
          ELSE IF FastResume(r.existing, state.BytesUploaded)
          THEN /\ Return(w, r, Result(state.BytesUploaded, FALSE, state, NoKey), FALSE)
               /\ UNCHANGED <<store, faults>>
          ELSE MainLoop(w, [r EXCEPT !.state = state, !.bytesAlready = 0, !.parts = 1])

\* multipart.go 640-695: the answer to initiate-multipart; part 1 is built from
\* the identification chunk and the bytes that fill it to PartSize, and sent
OnInit(w) ==
    LET r == inv[w]
        uploadId == r.resp.id
        state == [S3UploadId |-> uploadId, S3Key |-> r.key, CompletedParts |-> <<>>,
                  NextPartNumber |-> 1, BytesUploaded |-> 0,
                  ContentHash |-> r.stateKey.h]
        n == ReadN(r.body, r.pos, PartSize - r.identifyN)
        firstPartSize == r.identifyN + n
        firstPartData == Cat(ReadData(r.body, 0, r.identifyN),
                             ReadData(r.body, r.pos, PartSize - r.identifyN))
    IN /\ r.pc = "awaitInit"
       /\ nextUuid' = nextUuid
       /\ IF r.resp.kind # "ok200"
          THEN /\ Return(w, r, NoResult, TRUE)
               /\ UNCHANGED <<store, faults>>
          ELSE \E o \in Outcomes : \E took \in Took(o) :
                 /\ faults' = faults + Failed(o)
                 /\ mpu' = NotePart(IF took
                                     THEN S3UploadPart(uploadId, 1, firstPartData)
                                     ELSE mpu, uploadId, 1)
                 /\ Keep(w, [r EXCEPT
                        !.pc = "awaitFirst", !.uploadId = uploadId, !.state = state,
                        !.pos = @ + n, !.partNumber = 1, !.partSize = firstPartSize,
                        !.nreq = @ + 1, !.nparts = @ + 1,
                        !.resp = [NoResp EXCEPT !.kind = Answer(o, Live(uploadId)),
                                                !.etag = ETagOf(firstPartData)]])
                 /\ UNCHANGED <<objects, kvMultipart, kvCompleted>>

\* a checkpoint that does not advance the part number
WithPartSameNumber(state, partNumber, etag, partSize) ==
    [state EXCEPT
       !.CompletedParts = Append(@, [PartNumber |-> partNumber, ETag |-> etag]),
       !.NextPartNumber = partNumber,
       !.BytesUploaded = @ + partSize]

\* multipart.go 712-717, 788-793: the checkpoint after a part was uploaded
WithPart(state, partNumber, etag, partSize) ==
    [state EXCEPT
       !.CompletedParts = Append(@, [PartNumber |-> partNumber, ETag |-> etag]),
       !.NextPartNumber = partNumber + 1,
       !.BytesUploaded = @ + partSize]

\* multipart.go 695-725: the answer to the upload of part 1
OnFirst(w) ==
    LET r == inv[w]
    IN /\ r.pc = "awaitFirst"
       /\ nextUuid' = nextUuid
       /\ IF r.resp.kind # "ok200"
          THEN /\ Return(w, r, NoResult, TRUE)
               /\ UNCHANGED <<store, faults>>
          ELSE MainLoop(w, [r EXCEPT
                  !.state = WithPart(@, 1, r.resp.etag, r.partSize),
                  !.bytesAlready = 0, !.parts = 1])

\* multipart.go 761-795: the answer to an upload-part of the main loop
OnPart(w) ==
    LET r == inv[w]
    IN /\ r.pc = "awaitPart"
       /\ nextUuid' = nextUuid
       /\ IF r.resp.kind = "error"
          THEN /\ kvMultipart' = SaveMultipartState(r.stateKey, r.state)
               /\ Return(w, r, Result(r.state.BytesUploaded, FALSE, r.state, NoKey), TRUE)
               /\ UNCHANGED <<objects, mpu, kvCompleted, faults>>
          ELSE IF r.resp.kind # "ok200"
          THEN /\ kvMultipart' = SaveMultipartState(r.stateKey, r.state)
               /\ Return(w, r, NoResult, TRUE)
               /\ UNCHANGED <<objects, mpu, kvCompleted, faults>>
          ELSE MainLoop(w, [r EXCEPT
                  !.state = WithPart(@, r.partNumber, r.resp.etag, r.partSize),
                  !.parts = @ + 1])

\* multipart.go 856-877: the answer to complete-multipart
OnComplete(w) ==
    LET r == inv[w]
    IN /\ r.pc = "awaitComplete"
       /\ nextUuid' = nextUuid
       /\ IF r.resp.kind # "ok200"
          THEN /\ Return(w, r, NoResult, TRUE)
               /\ UNCHANGED <<store, faults>>
          ELSE /\ kvMultipart' = DeleteMultipartState(r.stateKey)
               /\ kvCompleted' = SaveCompletedUpload(r.stateKey, r.key)
               /\ Return(w, r, Result(r.state.BytesUploaded, TRUE, NoState, r.key), FALSE)
               /\ UNCHANGED <<objects, mpu, faults>>

\* The host ends an invocation at an await point: the request it waits on has
\* been sent, nothing after it runs, and no reply is written.
HostCancel(w) ==
    LET r == inv[w]
    IN /\ r.pc # "idle"
       /\ faults < MaxFaults
       /\ faults' = faults + 1
       /\ inv' = [inv EXCEPT ![w] = IdleInv]
       /\ reply' = Rep("cancel", r.uuid, 0, "", -1, r.body, Eng(r, "cancelled"))
       /\ UNCHANGED <<sessions, nextUuid, store, hist, limiter, local>>


\* ------------------------------------------------------------ finalizer
BadDigest == <<"md5", <<>>>>
WrongDigest == sha256Hex(<< <<"Z", 0, 1>> >>)

\* what the client has sent in session u when it sends p as the body of the PUT
ClientBytes(u, p) == Cat(SentBytes(u), Bytes(p))

\* a request of PUT-complete to a backend and how it was answered
Req(op, o, found) == [op |-> op, res |-> Answer(o, found)]

\* a COPY that counts any answer as success
CopyWorkedAlways(oc, there) == there

\* uploads.go 300-308: whether the COPY was answered 2xx
CopyWorked(oc, there) == oc = "ok" /\ there

PutReply(u, name, digest, p, status, code) ==
    Again([Rep("put", u, status, code, -1, p, NoEng)
              EXCEPT !.digest = digest, !.seq = 0])

\* the status of the answer to a PUT-complete for u, as the client keeps it
Answered(u, digest, p, status) ==
    Put(puts, u, status)

\* uploads.go 271-292, 312-352: the answer to a failed backend step
\* an error reply that drops the session
CompleteFailsDropsSession(u, name, digest, p, objs, f, reqs) ==
    /\ objects' = objs
    /\ faults' = f
    /\ sessions' = Del(sessions, u)
    /\ reply' = [PutReply(u, name, digest, p, 500, "UNSUPPORTED")
                     EXCEPT !.reqs = reqs]
    /\ puts' = Answered(u, digest, p, 500)
    /\ UNCHANGED <<mpu, kvMultipart, kvCompleted, pushHist, limiter, local>>

\* an error reply that takes back what was written at the final key
CompleteFailsRollsBack(u, name, digest, p, objs, f, reqs) ==
    /\ objects' = Del(objs, FinalKey(digest))
    /\ faults' = f
    /\ reply' = [PutReply(u, name, digest, p, 500, "UNSUPPORTED")
                     EXCEPT !.reqs = reqs]
    /\ puts' = Answered(u, digest, p, 500)
    /\ UNCHANGED <<sessions, mpu, kvMultipart, kvCompleted, pushHist, limiter, local>>

CompleteFails(u, name, digest, p, objs, f, reqs) ==
    /\ objects' = objs
    /\ faults' = f
    /\ reply' = [PutReply(u, name, digest, p, 500, "UNSUPPORTED")
                     EXCEPT !.reqs = reqs]
    /\ puts' = Answered(u, digest, p, 500)
    /\ UNCHANGED <<sessions, mpu, kvMultipart, kvCompleted, pushHist, limiter, local>>

\* uploads.go 362-377: delete the session and the checkpoint of the temp key,
\* reply 201
CompleteEnds(u, name, digest, p, objs, f, copied, reqs) ==
    LET session == sessions[u]
        sourceKey == ChunkKey(session.TempLocation)
    IN \E o \in OutAt(f) \ {"status"} :
         IF o # "ok"
         THEN CompleteFails(u, name, digest, p, objs, f + 1,
                            Append(reqs, Req("KVDELETE", o, TRUE)))
         ELSE /\ objects' = objs
              /\ faults' = f
              /\ sessions' = Del(sessions, u)
              /\ kvMultipart' = DeleteMultipartState(sourceKey)
              /\ reply' = [PutReply(u, name, digest, p, 201, "")
                               EXCEPT !.reqs = Append(reqs, Req("KVDELETE", o, TRUE))]
              /\ pushed' = [digest |-> digest, sent |-> ClientBytes(u, p), uuid |-> u]
              /\ finalized' = IF copied /\ u \in DOMAIN asm
                              THEN finalized \cup {<<session.Repo, asm[u]>>}
                              ELSE finalized
              /\ sent' = Del(sent, u)
              /\ puts' = Answered(u, digest, p, 201)
              /\ UNCHANGED <<mpu, kvCompleted, asm, stream, interrupted, assembled,
                             ingests, limiter, local>>

\* uploads.go 293-360: copy the temp object to the final key (COPY, else GET
\* then PUT), then delete the temp object
CopyTemp(u, name, digest, p) ==
    LET sourceKey == ChunkKey(sessions[u].TempLocation)
        finalKey == FinalKey(digest)
        there == sourceKey \in DOMAIN objects
        Clean(objs, f, reqs) ==
            \E od \in OutAt(f) :
               CompleteEnds(u, name, digest, p,
                            IF od = "ok" THEN Del(objs, sourceKey) ELSE objs,
                            f + Failed(od), TRUE,
                            Append(reqs, Req("DELETE", od, TRUE)))
    IN \E oc \in OutAt(faults) :
         LET copy == <<Req("COPY", oc, there)>>
         IN IF CopyWorked(oc, there)
            THEN Clean(Put(objects, finalKey, objects[sourceKey]), faults, copy)
            ELSE \E og \in OutAt(faults + Failed(oc)) :
                   LET get == Append(copy, Req("GET", og, there))
                   IN IF ~(og = "ok" /\ there)
                      THEN CompleteFails(u, name, digest, p, objects,
                                         faults + Failed(oc) + Failed(og), get)
                      ELSE \E op \in OutAt(faults + Failed(oc)) :
                             LET put == Append(get, Req("PUT", op, TRUE))
                             IN IF op # "ok"
                                THEN CompleteFails(u, name, digest, p, objects,
                                                   faults + Failed(oc) + 1, put)
                                ELSE Clean(Put(objects, finalKey, objects[sourceKey]),
                                           faults + Failed(oc), put)

\* handleCompleteUpload: PUT /v2/<name>/blobs/uploads/<uuid>?digest=<digest>,
\* with body p (no body when p.len = 0)
handleCompleteUpload(u, name, digest, p) ==
    LET contentLengthInt == p.len
        finalKey == FinalKey(digest)
    IN /\ UNCHANGED <<nextUuid, inv>>
       /\ IF ~SessionKnown(u)
          THEN /\ reply' = PutReply(u, name, digest, p, 404, "BLOB_UPLOAD_UNKNOWN")
               /\ puts' = Answered(u, digest, p, 404)
               /\ UNCHANGED <<sessions, store, faults, pushHist, limiter, local>>
          ELSE IF ~HasSha256Prefix(digest)
          THEN /\ reply' = PutReply(u, name, digest, p, 400, "DIGEST_INVALID")
               /\ puts' = Answered(u, digest, p, 400)
               /\ UNCHANGED <<sessions, store, faults, pushHist, limiter, local>>
          ELSE IF contentLengthInt > 0
          THEN \E o \in OutAt(faults) :
                 IF o # "ok"
                 THEN CompleteFails(u, name, digest, p, objects, faults + 1,
                                    <<Req("PUT", o, TRUE)>>)
                 ELSE CompleteEnds(u, name, digest, p,
                                   Put(objects, finalKey, Bytes(p)), faults, FALSE,
                                   <<Req("PUT", o, TRUE)>>)
          ELSE IF sessions[u].BytesReceived > 0
          THEN CopyTemp(u, name, digest, p)
          ELSE CompleteEnds(u, name, digest, p, objects, faults, FALSE, <<>>)

\* ------------------------------------------------------------ blobs
GetReply(name, digest, status, code, data) ==
    Again([Rep("get", 0, status, code, -1, NoPayload, NoEng)
              EXCEPT !.digest = digest, !.data = data, !.seq = 0])

\* handleGetBlob: GET /v2/<name>/blobs/<digest>, through the CDN, else direct
handleGetBlob(name, digest) ==
    LET blobKey == BlobKey(digest)
        there == blobKey \in DOMAIN objects
        data == IF there THEN objects[blobKey] ELSE <<>>
    IN /\ HasSha256Prefix(digest)
       /\ \E oc \in OutAt(faults) :
            IF oc = "ok"
            THEN /\ faults' = faults
                 /\ reply' = IF there THEN GetReply(name, digest, 200, "", data)
                             ELSE GetReply(name, digest, 404, "BLOB_UNKNOWN", <<>>)
            ELSE \E o \in OutAt(faults + 1) :
                   /\ faults' = faults + 1 + Failed(o)
                   /\ reply' = IF o = "ok" /\ there
                               THEN GetReply(name, digest, 200, "", data)
                               ELSE IF o = "ok"
                               THEN GetReply(name, digest, 404, "BLOB_UNKNOWN", <<>>)
                               ELSE GetReply(name, digest, 500, "UNSUPPORTED", <<>>)
       /\ UNCHANGED <<sessions, nextUuid, store, inv, hist, limiter, local>>

\* the reply to a blob request that carries no data
BlobReply(op, name, digest, status, code) ==
    Again([Rep(op, 0, status, code, -1, NoPayload, NoEng)
              EXCEPT !.digest = digest, !.seq = 0])

\* handleHeadBlob: HEAD /v2/<name>/blobs/<digest>, direct to the object store
handleHeadBlob(name, digest) ==
    LET blobKey == BlobKey(digest)
        there == blobKey \in DOMAIN objects
    IN /\ IF ~HasSha256Prefix(digest)
          THEN /\ faults' = faults
               /\ reply' = BlobReply("head", name, digest, 400, "DIGEST_INVALID")
          ELSE \E o \in Outcomes :
                 /\ faults' = faults + Failed(o)
                 /\ reply' = IF o = "ok" /\ there
                             THEN [BlobReply("head", name, digest, 200, "")
                                      EXCEPT !.range = Size(objects[blobKey])]
                             ELSE IF o = "ok"
                             THEN BlobReply("head", name, digest, 404, "BLOB_UNKNOWN")
                             ELSE BlobReply("head", name, digest, 500, "UNSUPPORTED")
       /\ UNCHANGED <<sessions, nextUuid, store, inv, hist, limiter, local>>

\* handleDeleteBlob: DELETE /v2/<name>/blobs/<digest>.  An object store answers
\* the delete of a key it does not hold with 404 or with 204.
handleDeleteBlob(name, digest) ==
    LET blobKey == BlobKey(digest)
        there == blobKey \in DOMAIN objects
    IN /\ IF ~HasSha256Prefix(digest)
          THEN /\ faults' = faults
               /\ objects' = objects
               /\ reply' = BlobReply("delete", name, digest, 400, "DIGEST_INVALID")
          ELSE \E o \in Outcomes, missing \in {404, 204} :
                 /\ faults' = faults + Failed(o)
                 /\ objects' = IF o = "ok" THEN Del(objects, blobKey) ELSE objects
                 /\ reply' = IF o = "error"
                             THEN BlobReply("delete", name, digest, 500, "UNSUPPORTED")
                             ELSE IF o = "ok" /\ ~there /\ missing = 404
                             THEN BlobReply("delete", name, digest, 404, "BLOB_UNKNOWN")
                             ELSE BlobReply("delete", name, digest, 202, "")
       /\ UNCHANGED <<sessions, nextUuid, mpu, kvMultipart, kvCompleted, inv, hist, limiter, local>>

\* a mount that never looks for the blob and always opens a session
MountAlwaysInitiates(name, mountDigest) == InitiateUpload("mount", name, faults)

\* handleMountBlob: POST /v2/<name>/blobs/uploads/?mount=<digest>&from=<repo>
handleMountBlob(name, mountDigest) ==
    LET blobKey == BlobKey(mountDigest)
        there == blobKey \in DOMAIN objects
    IN IF ~HasSha256Prefix(mountDigest)
       THEN /\ reply' = BlobReply("mount", name, mountDigest, 400, "DIGEST_INVALID")
            /\ UNCHANGED <<sessions, nextUuid, store, inv, faults, hist, limiter, local>>
       ELSE \E o \in Outcomes :
              IF o = "error"
              THEN /\ faults' = faults + 1
                   /\ reply' = BlobReply("mount", name, mountDigest, 500, "UNSUPPORTED")
                   /\ UNCHANGED <<sessions, nextUuid, store, inv, hist, limiter, local>>
              ELSE IF o = "ok" /\ there
              THEN /\ faults' = faults
                   /\ reply' = [BlobReply("mount", name, mountDigest, 201, "")
                                   EXCEPT !.location = BlobLocation(name, mountDigest)]
                   /\ UNCHANGED <<sessions, nextUuid, store, inv, hist, limiter, local>>
              ELSE InitiateUpload("mount", name, faults + Failed(o))

\* handleGetUploadStatus: GET /v2/<name>/blobs/uploads/<uuid>
handleGetUploadStatus(name, u) ==
    /\ reply' = IF ~SessionKnown(u)
                THEN Rep("status", u, 404, "BLOB_UPLOAD_UNKNOWN", -1, NoPayload, NoEng)
                ELSE Again([Rep("status", u, 204, "",
                                max(0, sessions[u].BytesReceived - 1), NoPayload, NoEng)
                              EXCEPT !.location = UploadLocation(name, u), !.seq = 0])
    /\ UNCHANGED <<sessions, nextUuid, store, inv, faults, hist, limiter, local>>

\* ------------------------------------------------------------ rate limit
ClientIPs == {"a", "b"}
Methods == {"GET", "OPTIONS", "TRACE"}
NoWindow == [start |-> 0, seen |-> 0, allowed |-> 0]

\* security.go 71-102: CheckRateLimit at time t, with the map it leaves
CheckRateLimit(entries, clientIP, t) ==
    LET exists == clientIP \in DOMAIN entries
        count == entries[clientIP].Count + 1
    IN IF ~exists \/ t > entries[clientIP].ResetTime
       THEN [allowed |-> TRUE, count |-> 1, remaining |-> RateLimitMaxRequests,
             store |-> Put(entries, clientIP,
                           [Count |-> 1, ResetTime |-> t + RateLimitWindow])]
       ELSE [allowed |-> count <= RateLimitMaxRequests,
             count |-> count,
             remaining |-> IF count > RateLimitMaxRequests THEN 0
                           ELSE RateLimitMaxRequests - count,
             store |-> [entries EXCEPT ![clientIP].Count = count]]

\* the window of a client at time t as the client counts it: the one it is in,
\* or a new one when it has none or the last one is over
WindowAt(clientIP, t) ==
    IF clientIP \in DOMAIN window /\ t <= window[clientIP].start + RateLimitWindow
    THEN window[clientIP]
    ELSE [NoWindow EXCEPT !.start = t]

RouteReply(clientIP, status, code, retryAfter) ==
    [NoReply EXCEPT !.op = "route", !.status = status, !.code = code,
                    !.ip = clientIP, !.retryAfter = retryAfter]

\* handleRoute up to the dispatch: TRACE and OPTIONS are answered at once, the
\* other requests pass the rate limit and are answered 429 or handed on to
\* authentication and the handler of the route ("dispatched")
handleRoute(clientIP, method) ==
    LET checked == CheckRateLimit(rateLimitStore, clientIP, now)
        win == WindowAt(clientIP, now)
    IN /\ win.seen < RateLimitMaxRequests + MaxOver
       /\ IF method = "TRACE"
          THEN /\ reply' = RouteReply(clientIP, 405, "", -1)
               /\ UNCHANGED <<rateLimitStore, window>>
          ELSE IF method = "OPTIONS"
          THEN /\ reply' = RouteReply(clientIP, 204, "", -1)
               /\ UNCHANGED <<rateLimitStore, window>>
          ELSE /\ rateLimitStore' = checked.store
               /\ window' = Put(window, clientIP,
                     [win EXCEPT !.seen = @ + 1,
                                 !.allowed = @ + IF checked.allowed THEN 1 ELSE 0])
               /\ reply' = IF checked.allowed
                           THEN RouteReply(clientIP, 0, "dispatched", -1)
                           ELSE RouteReply(clientIP, 429, "TOOMANYREQUESTS",
                                           RateLimitWindow)
       /\ UNCHANGED <<sessions, nextUuid, store, inv, faults, hist, now, local>>

\* the clock moves on by d seconds
Tick(d) ==
    /\ now + d <= MaxLapses * (RateLimitWindow + 1)
    /\ now' = now + d
    /\ UNCHANGED <<sessions, nextUuid, store, inv, faults, reply, hist,
                   rateLimitStore, window, local>>

\* The host serves the next request in a new instance of the program: the
\* in-memory map starts empty.
ColdStart ==
    /\ rateLimitStore # EmptyMap
    /\ rateLimitStore' = EmptyMap
    /\ UNCHANGED <<sessions, nextUuid, store, inv, faults, reply, hist, now,
                   window, local>>

\* ------------------------------------------------------------ system
Uuids == 1 .. MaxSessions
Bodies == {q \in Payloads : q.len <= SmallLen}
Digests(u, p) == {sha256Hex(ClientBytes(u, p)), WrongDigest, BadDigest}
Asked == IF pushed = NoPush THEN {} ELSE {pushed.digest}

\* The client sends at most MaxChunks bodies in a session, and streams the same
\* payload when it tries a chunked PATCH again.
Sends(u, p, chunked) ==
    LET n == IF u \in DOMAIN sent THEN Len(sent[u]) ELSE 0
    IN \/ p.len = 0
       \/ chunked /\ u \in DOMAIN stream /\ stream[u] = p
       \/ u \notin DOMAIN stream /\ n < MaxChunks
       \/ ~chunked /\ n < MaxChunks

\* The upload path: sessions, chunked PATCH into the ingestion engine, backend
\* failures and host cancellation, invocations running side by side.
Next ==
    \/ \E name \in Repos : handleInitiateUpload(name)
    \/ \E w \in Workers, u \in Uuids, name \in Repos, p \in Payloads :
          Sends(u, p, TRUE) /\ handleUploadChunk(w, u, name, p, TRUE)
    \/ \E w \in Workers : Probe(w)
    \/ \E w \in Workers : OnHead(w)
    \/ \E w \in Workers : OnList(w)
    \/ \E w \in Workers : OnInit(w)
    \/ \E w \in Workers : OnFirst(w)
    \/ \E w \in Workers : OnPart(w)
    \/ \E w \in Workers : OnComplete(w)
    \/ \E w \in Workers : HostCancel(w)

Spec == Init /\ [][Next]_vars

\* The push of known-length chunks: sessions, PATCH with Content-Length (and
\* the chunked PATCH that carries nothing), PUT-complete and blob fetch.
NextPush ==
    \/ \E name \in Repos : handleInitiateUpload(name)
    \/ \E u \in Uuids, name \in Repos :
          handleUploadChunk(1, u, name, NoPayload, TRUE)
    \/ \E u \in Uuids, name \in Repos, p \in Bodies :
          Sends(u, p, FALSE) /\ handleUploadChunk(1, u, name, p, FALSE)
    \/ \E u \in Uuids, name \in Repos, p \in Bodies :
          \E digest \in Digests(u, p) :
             Sends(u, p, FALSE) /\ handleCompleteUpload(u, name, digest, p)
    \/ \E name \in Repos, digest \in Asked : handleGetBlob(name, digest)

PushSpec == Init /\ [][NextPush]_vars

\* One client at a time, no backend failure and no cancellation, the payloads at
\* the per-invocation part limit.
NoFailure == faults' = faults
NextBig ==
    \/ \E name \in Repos : NoFailure /\ handleInitiateUpload(name)
    \/ \E u \in Uuids, name \in Repos, p \in BigPayloads :
          NoFailure /\ Sends(u, p, TRUE) /\ handleUploadChunk(1, u, name, p, TRUE)
    \/ NoFailure /\ Probe(1)
    \/ NoFailure /\ OnHead(1)
    \/ NoFailure /\ OnList(1)
    \/ NoFailure /\ OnInit(1)
    \/ NoFailure /\ OnFirst(1)
    \/ NoFailure /\ OnPart(1)
    \/ NoFailure /\ OnComplete(1)
    \/ \E u \in Uuids, name \in Repos :
          NoFailure /\ handleCompleteUpload(u, name,
                          sha256Hex(ClientBytes(u, NoPayload)), NoPayload)
    \/ \E name \in Repos, digest \in Asked : NoFailure /\ handleGetBlob(name, digest)

BigSpec == Init /\ [][NextBig]_vars

\* One client that pushes the two-part payload and tries again after a failure;
\* the backend fails at most MaxFaults times.  Handlers run to their return once
\* entered, and the client never gives up sending.
TwoParts == [base |-> "A", len |-> MidLen]
EngineStep ==
    Probe(1) \/ OnHead(1) \/ OnList(1) \/ OnInit(1) \/ OnFirst(1) \/ OnPart(1)
       \/ OnComplete(1)
NextRetry ==
    \/ \E name \in Repos : handleInitiateUpload(name)
    \/ \E u \in Uuids, name \in Repos :
          Sends(u, TwoParts, TRUE) /\ handleUploadChunk(1, u, name, TwoParts, TRUE)
    \/ Probe(1)
    \/ OnHead(1)
    \/ OnList(1)
    \/ OnInit(1)
    \/ OnFirst(1)
    \/ OnPart(1)
    \/ OnComplete(1)

RetrySpec == Init /\ [][NextRetry]_vars /\ WF_vars(EngineStep) /\ WF_vars(NextRetry)

\* Two clients push the two-part payload to the same repository, each in its
\* own session, their invocations running side by side; each sends PUT-complete
\* with the digest of the payload once its PATCH has been answered, and no
\* client has two requests on its session at once.  No backend failure, no
\* cancellation; the two-part payload never leaves a checkpoint behind, so no
\* invocation lists parts.
Busy(u) == \E w \in Workers : inv[w].uuid = u
Settled(u) == u \in DOMAIN stream /\ ~Busy(u)
NextConc ==
    \/ \E name \in Repos : NoFailure /\ handleInitiateUpload(name)
    \/ \E w \in Workers, u \in Uuids, name \in Repos :
          /\ NoFailure
          /\ ~Busy(u)
          /\ Sends(u, TwoParts, TRUE)
          /\ handleUploadChunk(w, u, name, TwoParts, TRUE)
    \/ \E w \in Workers : NoFailure /\ Probe(w)
    \/ \E w \in Workers : NoFailure /\ OnHead(w)
    \/ \E w \in Workers : NoFailure /\ OnInit(w)
    \/ \E w \in Workers : NoFailure /\ OnFirst(w)
    \/ \E w \in Workers : NoFailure /\ OnPart(w)
    \/ \E w \in Workers : NoFailure /\ OnComplete(w)
    \/ \E u \in Uuids, name \in Repos :
          /\ NoFailure
          /\ Settled(u)
          /\ handleCompleteUpload(u, name, sha256Hex(Bytes(TwoParts)), NoPayload)
    \/ \E name \in Repos, digest \in Asked : NoFailure /\ handleGetBlob(name, digest)

ConcSpec == Init /\ [][NextConc]_vars

\* Blobs by digest, in two repositories: sessions opened by POST or by a mount
\* that found nothing, PUT-complete with the whole blob as its body, and the
\* blob requests.
BlobRepos == {"r", "s"}
Blob == [base |-> "A", len |-> SmallLen]
BlobBodies == {NoPayload, Blob}
BlobDigests == {sha256Hex(Bytes(Blob)), WrongDigest, BadDigest}
NextBlob ==
    \/ \E name \in BlobRepos : handleInitiateUpload(name)
    \/ \E name \in BlobRepos, digest \in BlobDigests : handleMountBlob(name, digest)
    \/ \E u \in Uuids, name \in BlobRepos, p \in BlobBodies, digest \in BlobDigests :
          /\ u \in DOMAIN sessions => name = sessions[u].Repo
          /\ handleCompleteUpload(u, name, digest, p)
    \/ \E name \in BlobRepos, digest \in BlobDigests : handleGetBlob(name, digest)
    \/ \E name \in BlobRepos, digest \in BlobDigests : handleHeadBlob(name, digest)
    \/ \E name \in BlobRepos, digest \in BlobDigests : handleDeleteBlob(name, digest)

BlobSpec == Init /\ [][NextBlob]_vars

\* The requests of upload sessions in any order, a request for a session not
\* waiting for the one before it: POST, the chunked PATCH of a small blob,
\* PUT-complete with or without a body, and the status request.  No backend
\* failure.
NextSession ==
    \/ \E name \in Repos : NoFailure /\ handleInitiateUpload(name)
    \/ \E u \in Uuids, name \in Repos :
          NoFailure /\ Sends(u, Blob, TRUE) /\ handleUploadChunk(1, u, name, Blob, TRUE)
    \/ NoFailure /\ Probe(1)
    \/ NoFailure /\ OnHead(1)
    \/ NoFailure /\ OnInit(1)
    \/ NoFailure /\ OnFirst(1)
    \/ NoFailure /\ OnComplete(1)
    \/ \E u \in Uuids, name \in Repos, p \in BlobBodies :
          NoFailure /\ handleCompleteUpload(u, name, sha256Hex(Bytes(Blob)), p)
    \/ \E u \in Uuids, name \in Repos : handleGetUploadStatus(name, u)

SessionSpec == Init /\ [][NextSession]_vars

\* The same client, slow: more than the lifetime of a session passes between
\* its requests, up to MaxHours times.
HourPasses ==
    /\ now < MaxHours * (SessionLifetime + 1)
    /\ now' = now + SessionLifetime + 1
    /\ UNCHANGED <<sessions, nextUuid, store, inv, faults, reply, hist,
                   rateLimitStore, window, local>>
NextExpiry ==
    \/ NextSession
    \/ HourPasses

ExpirySpec == Init /\ [][NextExpiry]_vars

\* Two clients push to the same repository, side by side and each in its own
\* session, two blobs that begin with the same IdentifyChunkSize bytes: the
\* first a payload at the per-invocation limit or one byte over it, the second
\* the two-part payload.  A client sends its next request once the one before has been
\* answered, a PATCH while the session has no bytes and then PUT-complete
\* without body, which moves the temp object away.  The send of part 2 can
\* fail; the object store can drop the upload a checkpoint names.
CapPayloads(u) == IF u = 1 THEN BigPayloads ELSE {TwoParts}
Checkpoints(id) == {k \in DOMAIN kvMultipart : kvMultipart[k].S3UploadId = id}
NextCap ==
    \/ \E name \in Repos : NoFailure /\ handleInitiateUpload(name)
    \/ \E w \in Workers, u \in DOMAIN sessions, name \in Repos :
          /\ NoFailure
          /\ ~Busy(u)
          /\ sessions[u].BytesReceived = 0
          /\ \E p \in CapPayloads(u) :
                Sends(u, p, TRUE) /\ handleUploadChunk(w, u, name, p, TRUE)
    \/ \E w \in Workers : NoFailure /\ Probe(w)
    \/ \E w \in Workers : NoFailure /\ OnHead(w)
    \/ \E w \in Workers : NoFailure /\ OnList(w)
    \/ \E w \in Workers : NoFailure /\ OnInit(w)
    \/ \E w \in Workers : OnFirst(w)
    \/ \E w \in Workers : NoFailure /\ OnPart(w)
    \/ \E w \in Workers : NoFailure /\ OnComplete(w)
    \/ \E u \in DOMAIN sessions, name \in Repos :
          /\ NoFailure
          /\ Settled(u)
          /\ sessions[u].BytesReceived > 0
          /\ handleCompleteUpload(u, name, sha256Hex(Bytes(stream[u])), NoPayload)
    \/ \E id \in 1 .. MaxUploads : Checkpoints(id) # {} /\ S3Expire(id)

CapSpec == Init /\ [][NextCap]_vars

\* Requests from two client addresses pass the rate limit while the clock moves
\* on, by a window or by a second more than a window; the second address sends
\* one request in all.  The host starts new instances as it pleases.
NextLimit ==
    \/ \E clientIP \in ClientIPs, method \in Methods :
          /\ clientIP = "b" => clientIP \notin DOMAIN window
          /\ handleRoute(clientIP, method)
    \/ \E d \in {RateLimitWindow, RateLimitWindow + 1} : Tick(d)
    \/ ColdStart

LimitSpec == Init /\ [][NextLimit]_vars

\* ------------------------------------------------------------ claims
\* a chunked PATCH carrying p to a live session
Resend(p) ==
    \E u \in DOMAIN sessions, name \in Repos :
       Sends(u, p, TRUE) /\ handleUploadChunk(1, u, name, p, TRUE)
WasInterrupted(p) == \E e \in interrupted : e[2] = p
WasAssembled(p) == \E e \in assembled : e[2] = p

\* C1: once an invocation has ended incomplete with at least one part in the
\* object store, a client that keeps sending chunked PATCH requests with the
\* same payload (to the same or to a fresh session), the backend no longer
\* failing, sees some later invocation upload the remaining parts and complete
\* the assembly.
C1_ResendCompletes ==
    ([]<><<Resend(TwoParts)>>_vars)
       => (WasInterrupted(TwoParts) ~> WasAssembled(TwoParts))

\* C2: a chunked PATCH to a session whose stored bytes_received is above zero
\* is answered 202 with Range 0-<bytes_received - 1>; the body is not read, no
\* object-store request is made, and the session, the multipart checkpoint and
\* the completed-content record stay as they were.
C2_FastPathFrame ==
    [][\A w \in Workers, u \in DOMAIN sessions, name \in Repos,
          p \in Payloads \cup BigPayloads :
          (sessions[u].BytesReceived > 0 /\ handleUploadChunk(w, u, name, p, TRUE))
             => /\ reply'.op = "patch" /\ reply'.uuid = u
                /\ reply'.status = 202
                /\ reply'.range = sessions[u].BytesReceived - 1
                /\ ~reply'.eng.ran /\ reply'.eng.read = 0 /\ reply'.eng.nreq = 0
                /\ UNCHANGED <<sessions, objects, mpu, kvMultipart, kvCompleted,
                               inv, faults>>]_vars

\* the fast path has just answered a request that carried a body
C2_Witness ==
    /\ reply.op = "patch" /\ reply.status = 202 /\ ~reply.eng.ran
    /\ reply.payload.len > 0
    /\ reply.uuid \in DOMAIN sessions
    /\ sessions[reply.uuid].BytesReceived > 0
    /\ reply.range = sessions[reply.uuid].BytesReceived - 1

\* the checkpoint under r's state key names r's upload id and object key
Checkpointed(kv, r) ==
    /\ r.stateKey \in DOMAIN kv
    /\ kv[r.stateKey].S3UploadId = r.uploadId
    /\ kv[r.stateKey].S3Key = r.key

\* C3: when the host cancels an invocation at an await point after at least one
\* part has been uploaded to the object store, the KV store holds a multipart
\* checkpoint naming that upload id and object key.
C3_CancelKeepsCheckpoint ==
    [][\A w \in Workers :
          (/\ HostCancel(w)
           /\ Live(inv[w].uploadId)
           /\ Len(inv[w].state.CompletedParts) > 0)
             => Checkpointed(kvMultipart', inv[w])]_vars

\* C4: in every reachable state at most one live multipart upload exists per
\* checkpoint key.
C4_OneLiveUploadPerKey ==
    \A i \in DOMAIN mpu, j \in DOMAIN mpu :
       (Live(i) /\ Live(j) /\ mpu[i].ck = mpu[j].ck) => i = j

\* C8: when an upload-part request of the main loop fails at the transport
\* level, the checkpoint is saved with the parts uploaded so far and the PATCH
\* is answered 202 with Range 0-<bytes uploaded so far - 1>.
C8_TransportFailureAccepted ==
    [][\A w \in Workers :
          (OnPart(w) /\ inv[w].resp.kind = "error")
             => /\ Checkpointed(kvMultipart', inv[w])
                /\ kvMultipart'[inv[w].stateKey].CompletedParts
                      = inv[w].state.CompletedParts
                /\ reply'.op = "patch" /\ reply'.uuid = inv[w].uuid
                /\ reply'.status = 202
                /\ reply'.range = inv[w].state.BytesUploaded - 1]_vars

\* C9: an invocation that returns a backend error after the multipart upload
\* was initiated (first part, later part or complete-multipart failed or was
\* answered non-2xx) has written the current checkpoint before it returns.
C9_ErrorsKeepCheckpoint ==
    [][\A w \in Workers :
          (/\ OnFirst(w) \/ OnPart(w) \/ OnComplete(w)
           /\ inv[w].resp.kind # "ok200")
             => /\ Checkpointed(kvMultipart', inv[w])
                /\ kvMultipart'[inv[w].stateKey].CompletedParts
                      = inv[w].state.CompletedParts
                /\ kvMultipart'[inv[w].stateKey].BytesUploaded
                      = inv[w].state.BytesUploaded]_vars

\* C5: once a push of content C to a repository has been assembled and
\* finalized with a 201, the first ingestion invocation of every later chunked
\* push of C to that repository returns complete with 0 bytes uploaded through
\* the completed-content early exit, and sends neither initiate-multipart nor
\* upload-part.
C5_LaterPushExitsEarly ==
    (reply.op = "patch" /\ reply.eng.ran /\ reply.eng.finalAtStart)
       => /\ reply.eng.res = "complete"
          /\ reply.eng.bytes = 0
          /\ reply.eng.ninit = 0
          /\ reply.eng.nparts = 0

\* C6: after a push that ended with a 201 from PUT-complete (the client having
\* declared the digest of what it sent), a GET of the blob returns the bytes the
\* client sent in that session, in order.
C6_GetReturnsWhatWasSent ==
    (reply.op = "get" /\ reply.status = 200 /\ pushed # NoPush
        /\ pushed.digest = sha256Hex(pushed.sent)
        /\ reply.digest = pushed.digest)
       => reply.data = pushed.sent

\* C7: a PUT-complete whose digest is not the SHA-256 of the bytes uploaded in
\* the session is answered 400 DIGEST_INVALID (no backend request failing) and
\* writes no object at the final key of that digest.
C7_DigestVerified ==
    [][\A u \in DOMAIN sessions, name \in Repos, p \in Bodies :
          \A digest \in {WrongDigest, BadDigest} :
             (/\ handleCompleteUpload(u, name, digest, p)
              /\ faults' = faults
              /\ ClientBytes(u, p) # <<>>
              /\ digest # sha256Hex(ClientBytes(u, p)))
                => /\ reply'.op = "put"
                   /\ reply'.status = 400 /\ reply'.code = "DIGEST_INVALID"
                   /\ BlobKey(digest) \notin DOMAIN objects
                         => BlobKey(digest) \notin DOMAIN objects']_vars

\* C10: with no backend failure, a chunked payload of PartSize *
\* MaxPartsPerRequest + 1 bytes is assembled in exactly two invocations: the
\* first uploads MaxPartsPerRequest parts and returns incomplete, the second
\* uploads the last part and completes the multipart upload.
OverLimit == [base |-> "A", len |-> FullLen + 1]
C10_TwoInvocations ==
    (/\ reply.op = "patch" /\ reply.eng.ran /\ reply.payload = OverLimit
     /\ pushed = NoPush
     /\ \A u \in DOMAIN stream : stream[u] = OverLimit)
       => /\ reply.eng.nth = 1
               => /\ reply.eng.res = "incomplete"
                  /\ reply.eng.nparts = MaxPartsPerRequest
          /\ reply.eng.nth = 2
               => /\ reply.eng.res = "complete"
                  /\ reply.eng.nparts = 1
                  /\ WasAssembled(OverLimit)

\* C11: with no backend failure and no earlier checkpoint, a chunked payload of
\* exactly PartSize * MaxPartsPerRequest bytes is assembled by one invocation:
\* it initiates once, uploads MaxPartsPerRequest parts (the first part among
\* them), reads no byte past the end of the stream and sends complete-multipart.
C11_OneInvocation ==
    (/\ reply.op = "patch" /\ reply.eng.ran /\ reply.payload = AtLimit
     /\ reply.eng.nth = 1)
       => /\ reply.eng.res = "complete"
          /\ reply.eng.ninit = 1
          /\ reply.eng.nparts = MaxPartsPerRequest
          /\ reply.eng.nreq = MaxPartsPerRequest + 2
          /\ reply.eng.read = FullLen
          /\ reply.eng.bytes = FullLen
          /\ WasAssembled(AtLimit)
          /\ \E k \in DOMAIN objects : objects[k] = Bytes(AtLimit)

\* the first invocation for the payload at the limit has just returned
C11_Witness ==
    /\ reply.op = "patch" /\ reply.eng.ran /\ reply.payload = AtLimit
    /\ reply.eng.nth = 1 /\ reply.eng.nparts = MaxPartsPerRequest
    /\ reply.eng.res = "complete"

\* C12: for every multipart upload id, the part numbers of the upload-part
\* requests sent for it, over all invocations, are 1, 2, 3, ... in that order,
\* none missing and none sent twice; and the body of a complete-multipart lists
\* exactly the parts the object store holds for the upload, in ascending order
\* of part number.
C12_PartNumbersAscend ==
    /\ \A id \in DOMAIN mpu :
          mpu[id].sentParts = [i \in 1 .. Len(mpu[id].sentParts) |-> i]
    /\ \A w \in Workers :
          inv[w].pc = "awaitComplete"
             => LET ps == inv[w].state.CompletedParts
                    held == mpu[inv[w].uploadId].parts
                IN /\ \A i \in 1 .. Len(ps) :
                         /\ ps[i].PartNumber = i
                         /\ i \in DOMAIN held
                         /\ ps[i].ETag = ETagOf(held[i])
                   /\ DOMAIN held = 1 .. Len(ps)

\* a complete-multipart listing two parts has been sent, a backend request
\* having failed before
C12_Witness ==
    /\ faults > 0
    /\ \E w \in Workers :
          /\ inv[w].pc = "awaitComplete"
          /\ Len(inv[w].state.CompletedParts) = 2
          /\ mpu[inv[w].uploadId].sentParts = <<1, 2>>

C14_RetryFinalizes ==
    [][\A u \in DOMAIN sessions, name \in Repos, p \in Bodies :
          \A digest \in Digests(u, p) :
             (/\ reply.op = "put" /\ reply.status = 500
              /\ reply.uuid = u /\ reply.digest = digest /\ reply.payload = p
              /\ handleCompleteUpload(u, name, digest, p)
              /\ faults' = faults)
                => /\ reply'.op = "put" /\ reply'.uuid = u
                   /\ reply'.status = 201
                   /\ BlobKey(digest) \in DOMAIN objects
                         => /\ BlobKey(digest) \in DOMAIN objects'
                            /\ objects'[BlobKey(digest)] = objects[BlobKey(digest)]]_vars

\* blobs/sha256/<h[0:2]>/<h[2:4]>/<h> for the digest sha256:<h>
KeyOfDigest(digest) ==
    [k |-> "blobs/sha256",
     loc |-> <<Slice(digest[2], 0, 2), Slice(digest[2], 2, 4)>>,
     h |-> digest[2]]

\* C15: for every digest sha256:<h>, whatever the repository and the session,
\* the key the finalizer writes and the key that GET, HEAD, DELETE and the mount
\* probe look at are both blobs/sha256/<h[0:2]>/<h[2:4]>/<h>.
C15_KeyByDigestOnly ==
    [][\A name \in BlobRepos, digest \in BlobDigests :
          HasSha256Prefix(digest)
             => /\ FinalKey(digest) = KeyOfDigest(digest)
                /\ BlobKey(digest) = KeyOfDigest(digest)
                /\ \A u \in DOMAIN sessions, p \in BlobBodies :
                      (/\ reply'.op = "put" /\ reply'.digest = digest
                       /\ handleCompleteUpload(u, name, digest, p))
                         => /\ objects' \in {objects,
                                             Put(objects, KeyOfDigest(digest), Bytes(p))}
                            /\ (reply'.status = 201 /\ p.len > 0)
                                  => /\ KeyOfDigest(digest) \in DOMAIN objects'
                                     /\ objects'[KeyOfDigest(digest)] = Bytes(p)
                /\ (/\ reply'.op = "get" /\ reply'.digest = digest
                    /\ handleGetBlob(name, digest) /\ faults' = faults)
                      => /\ reply'.status = 200 <=> KeyOfDigest(digest) \in DOMAIN objects
                         /\ reply'.status = 200
                               => reply'.data = objects[KeyOfDigest(digest)]
                /\ (/\ reply'.op = "head" /\ reply'.digest = digest
                    /\ handleHeadBlob(name, digest) /\ faults' = faults)
                      => (reply'.status = 200 <=> KeyOfDigest(digest) \in DOMAIN objects)
                /\ (/\ reply'.op = "delete" /\ reply'.digest = digest
                    /\ handleDeleteBlob(name, digest))
                      => /\ objects' \in {objects, Del(objects, KeyOfDigest(digest))}
                         /\ faults' = faults => KeyOfDigest(digest) \notin DOMAIN objects'
                /\ (/\ reply'.op = "mount"
                    /\ handleMountBlob(name, digest) /\ faults' = faults)
                      => (reply'.status = 201 <=> KeyOfDigest(digest) \in DOMAIN objects)
      ]_vars

\* a blob pushed in a session has been fetched by its digest
C15_Witness ==
    /\ reply.op = "get" /\ reply.status = 200
    /\ pushed # NoPush /\ reply.digest = pushed.digest
    /\ KeyOfDigest(reply.digest) \in DOMAIN objects
    /\ reply.data = objects[KeyOfDigest(reply.digest)]

\* C16: a 202 reply to a PATCH whose invocation has n > 0 bytes of the upload
\* in the object store carries Range 0-<n - 1>, and the session's
\* bytes_received is n after the request; so it is when the invocation has
\* completed the assembly of the n bytes.
C16_RangeIsBytesReceived ==
    (/\ reply.op = "patch" /\ reply.status = 202
     /\ reply.eng.ran /\ reply.eng.bytes > 0
     /\ reply.uuid \in DOMAIN sessions)
       => /\ reply.range = reply.eng.bytes - 1
          /\ sessions[reply.uuid].BytesReceived = reply.eng.bytes

\* C17: once a PUT-complete for a session has returned 201, every later PATCH,
\* PUT-complete or status request for that session id is answered 404
\* BLOB_UPLOAD_UNKNOWN, and sends no object-store request and writes nothing to
\* the KV store.
C17_GoneAfterComplete ==
    [][\A u \in Uuids, name \in Repos :
          (u \in DOMAIN puts /\ puts[u] = 201)
             => \A p \in BlobBodies :
                   (\/ handleUploadChunk(1, u, name, p, TRUE)
                    \/ handleUploadChunk(1, u, name, p, FALSE)
                    \/ handleCompleteUpload(u, name, sha256Hex(Bytes(Blob)), p)
                    \/ handleGetUploadStatus(name, u))
                      => /\ reply'.uuid = u
                         /\ reply'.status = 404
                         /\ reply'.code = "BLOB_UPLOAD_UNKNOWN"
                         /\ UNCHANGED <<sessions, store, inv, faults>>]_vars

\* C18: a mount POST whose HEAD on the final key of the digest is answered 2xx
\* replies 201 with Location /v2/<repo>/blobs/<digest> and
\* Docker-Content-Digest, creates no upload session and writes nothing to the
\* object store.
C18_MountFound ==
    [][\A name \in BlobRepos, digest \in BlobDigests :
          (/\ reply'.op = "mount"
           /\ HasSha256Prefix(digest)
           /\ KeyOfDigest(digest) \in DOMAIN objects
           /\ handleMountBlob(name, digest)
           /\ faults' = faults)
             => /\ reply'.status = 201
                /\ reply'.location = <<"v2", name, "blobs", digest>>
                /\ reply'.digest = digest
                /\ UNCHANGED <<sessions, nextUuid, store>>]_vars

\* a mount has been answered 201 for a blob the store holds
C18_Witness ==
    /\ reply.op = "mount" /\ reply.status = 201
    /\ KeyOfDigest(reply.digest) \in DOMAIN objects
    /\ reply.location[4] = reply.digest

\* C19: a mount POST whose HEAD probe has any outcome other than 2xx, a
\* transport failure among them, is handled by the initiate-upload path: a new
\* upload session is created and the reply is 202 with the session's Location
\* and Docker-Upload-UUID.
C19_MountFallsBack ==
    [][\A name \in BlobRepos, digest \in BlobDigests :
          (/\ reply'.op = "mount"
           /\ HasSha256Prefix(digest)
           /\ handleMountBlob(name, digest)
           /\ ~(KeyOfDigest(digest) \in DOMAIN objects /\ faults' = faults))
             => /\ \E f \in {faults, faults + 1} : InitiateUpload("mount", name, f)
                /\ nextUuid' \in DOMAIN sessions'
                      => /\ reply'.status = 202
                         /\ reply'.uuid = nextUuid'
                         /\ reply'.location
                               = <<"v2", name, "blobs", "uploads", nextUuid'>>]_vars

\* C20: a PATCH with an empty body (chunked with a stream that ends at once, or
\* Content-Length 0) to a session with no bytes received is answered 202 with
\* Range 0-0; no object-store request is sent, and the session, the multipart
\* checkpoints and the completed-content records stay as they were.
C20_EmptyPatch ==
    [][\A u \in DOMAIN sessions, name \in Repos, chunked \in BOOLEAN :
          \A p \in {q \in Payloads \cup {NoPayload} : q.len = 0} :
             (/\ reply'.op = "patch"
              /\ sessions[u].BytesReceived = 0
              /\ handleUploadChunk(1, u, name, p, chunked))
                => /\ reply'.uuid = u
                   /\ reply'.status = 202
                   /\ reply'.range = 0
                   /\ reply'.eng.nreq = 0 /\ reply'.eng.read = 0
                   /\ UNCHANGED <<sessions, objects, mpu, kvMultipart, kvCompleted,
                                  inv, faults>>]_vars

\* an empty chunked PATCH has been answered for a session with no bytes
C20_Witness ==
    /\ reply.op = "patch" /\ reply.status = 202 /\ reply.range = 0
    /\ reply.eng.ran /\ reply.eng.read = 0
    /\ reply.uuid \in DOMAIN sessions
    /\ sessions[reply.uuid].BytesReceived = 0

\* C21: when the completed-content table holds a key for the checkpoint key and
\* the verifying HEAD on that key is not answered with success (another status,
\* or the request fails), the record is deleted and the invocation goes on to the
\* resume probe (list-parts) or to initiate, without replying; and an invocation
\* returns 'complete' without having uploaded anything only when its own HEAD
\* was answered with success.
C21_StaleRecordPurged ==
    [][/\ \A w \in Workers :
             (OnHead(w) /\ inv[w].resp.kind # "ok200")
                => /\ inv[w].stateKey \in DOMAIN kvCompleted
                      => inv[w].stateKey \notin DOMAIN kvCompleted'
                   /\ inv'[w].pc \in {"awaitList", "awaitInit"}
                   /\ inv'[w].nreq = 2
                   /\ reply' = reply
       /\ (/\ reply' # reply
           /\ reply'.op = "patch" /\ reply'.eng.ran
           /\ reply'.eng.res = "complete"
           /\ reply'.eng.read > 0 /\ reply'.eng.nparts = 0)
             => \E w \in Workers :
                   /\ OnHead(w)
                   /\ inv[w].resp.kind = "ok200"
                   /\ inv[w].completedKey \in DOMAIN objects
                   /\ reply'.eng.nreq = 1]_vars

\* an invocation whose HEAD found the recorded object gone has purged the record
\* and sent initiate-multipart
C21_Witness ==
    \E w \in Workers :
       /\ inv[w].pc = "awaitInit"
       /\ inv[w].completedKey # NoKey
       /\ inv[w].nreq = 2
       /\ inv[w].stateKey \notin DOMAIN kvCompleted

\* C22: in one PATCH invocation the engine sends at most MaxPartsPerRequest
\* upload-part requests and one initiate, and the object-store requests it sends
\* in all (verifying HEAD, list-parts, initiate, upload-part, complete or abort)
\* never exceed BackendRequestCap, on no path: not when it purges a stale
\* completed-content record, then finds the checkpointed upload gone and
\* initiates a new one.
C22_RequestsWithinCap ==
    /\ \A w \in Workers :
          /\ inv[w].nparts <= MaxPartsPerRequest
          /\ inv[w].ninit <= 1
          /\ inv[w].nreq <= BackendRequestCap
    /\ reply.eng.nparts <= MaxPartsPerRequest
    /\ reply.eng.ninit <= 1
    /\ reply.eng.nreq <= BackendRequestCap

\* an invocation that purged a stale record, listed the parts of an upload that
\* was gone and initiated a new one has uploaded the payload at the limit and
\* completed it
C22_Witness ==
    /\ reply.op = "patch" /\ reply.eng.ran /\ reply.eng.res = "complete"
    /\ reply.eng.nparts = MaxPartsPerRequest
    /\ reply.eng.ninit = 1
    /\ reply.eng.nreq = BackendRequestCap

\* C23: every part sent to the object store is a run of the stream that begins
\* where the part before it ended (part 1 at byte 0: the identification buffer
\* followed by the bytes read after it), and is exactly PartSize bytes long
\* unless it ends at the end of the stream; so of the parts the store holds for
\* an upload only the one with the highest number can be shorter.
C23_PartsAreFull ==
    /\ \A w \in Workers :
          inv[w].pc \in {"awaitFirst", "awaitPart"}
             => LET r == inv[w]
                IN /\ r.partSize > 0
                   /\ r.partSize = PartSize \/ r.pos = r.body.len
                   /\ r.pos = (r.partNumber - 1) * PartSize + r.partSize
                   /\ r.resp.etag
                         = ETagOf(<< <<r.body.base, r.pos - r.partSize, r.pos>> >>)
    /\ \A id \in DOMAIN mpu : \A n \in DOMAIN mpu[id].parts :
          \/ Size(mpu[id].parts[n]) = PartSize
          \/ \A m \in DOMAIN mpu[id].parts : m <= n

\* the last part of a stream has been sent shorter than PartSize, after a first
\* part of PartSize bytes that the store holds
C23_Witness ==
    \E w \in Workers :
       /\ inv[w].pc = "awaitPart"
       /\ inv[w].partNumber = 2
       /\ inv[w].partSize < PartSize
       /\ inv[w].pos = inv[w].body.len
       /\ Live(inv[w].uploadId)
       /\ 1 \in DOMAIN mpu[inv[w].uploadId].parts
       /\ Size(mpu[inv[w].uploadId].parts[1]) = PartSize

\* C24: for each client IP, within one window of RateLimitWindow seconds (it
\* starts at the first request after the window before it was over) at most
\* RateLimitMaxRequests requests are allowed: the request after them, and every
\* later one in the window, is answered 429 with Retry-After and is not handed
\* on to authentication or to a handler.
C24_AtMostHundred ==
    /\ \A clientIP \in DOMAIN window :
          window[clientIP].allowed <= RateLimitMaxRequests
    /\ (/\ reply.op = "route" /\ reply.ip \in DOMAIN window
        /\ reply.code \in {"dispatched", "TOOMANYREQUESTS"}
        /\ window[reply.ip].seen > RateLimitMaxRequests)
          => /\ reply.status = 429
             /\ reply.retryAfter = RateLimitWindow

\* the sizes of the parts the object store holds for an upload, added up
RECURSIVE HeldBytes(_, _)
HeldBytes(id, ns) ==
    IF ns = {} THEN 0
    ELSE LET n == CHOOSE x \in ns : TRUE
         IN Size(mpu[id].parts[n]) + HeldBytes(id, ns \ {n})

C27_FailedProbeStartsFresh ==
    [][\A w \in Workers :
          LET r == inv[w]
          IN /\ (OnList(w) /\ r.resp.kind # "ok200")
                   => /\ r.stateKey \notin DOMAIN kvMultipart'
                      /\ inv'[w].pc = "awaitInit"
                      /\ inv'[w].ninit = r.ninit + 1
                      /\ inv'[w].nparts = 0
                      /\ ~inv'[w].existing
                      /\ inv'[w].resp.kind = "ok200"
                            => /\ inv'[w].resp.id \notin DOMAIN mpu
                               /\ inv'[w].resp.id \in DOMAIN mpu'
                               /\ mpu'[inv'[w].resp.id].parts = EmptyMap
                               /\ mpu'[inv'[w].resp.id].status = "live"
             /\ (OnInit(w) /\ r.state # NoState /\ r.resp.kind = "ok200")
                   => /\ inv'[w].pc = "awaitFirst"
                      /\ inv'[w].state.S3UploadId = r.resp.id
                      /\ inv'[w].state.S3UploadId # r.state.S3UploadId
                      /\ inv'[w].state.CompletedParts = <<>>
                      /\ inv'[w].state.NextPartNumber = 1
                      /\ inv'[w].state.BytesUploaded = 0
                      /\ inv'[w].partNumber = 1
                      /\ inv'[w].nparts = 1
                      /\ inv'[w].partSize = Min(PartSize, r.body.len)
                      /\ DOMAIN mpu'[r.resp.id].parts \subseteq {1}
                      /\ \A n \in DOMAIN mpu'[r.resp.id].parts :
                            mpu'[r.resp.id].parts[n]
                               = ReadData(r.body, 0, PartSize)]_vars

\* an invocation found a checkpoint whose upload the object store has dropped,
\* deleted the checkpoint, opened a new upload under the checkpoint's object
\* key and has sent its part 1
C27_Witness ==
    \E w \in Workers :
       /\ inv[w].pc = "awaitFirst"
       /\ inv[w].ninit = 1 /\ inv[w].nparts = 1 /\ inv[w].nreq = 3
       /\ inv[w].stateKey \notin DOMAIN kvMultipart
       /\ inv[w].state.CompletedParts = <<>>
       /\ \E old \in DOMAIN mpu :
             /\ old < inv[w].uploadId
             /\ mpu[old].status = "aborted"
             /\ mpu[old].ck = inv[w].stateKey
             /\ mpu[old].parts # EmptyMap
             /\ mpu[old].key = inv[w].key
       /\ inv[w].key # ChunkKey(TempLocation(inv[w].name, inv[w].uuid))

\* C28: when complete-multipart is answered 200, the invocation returns with
\* the checkpoint of its checkpoint key absent from the KV store, the completed
\* record of that key holding the key of the assembled object, and the result
\* "complete" with that key and the total of the bytes assembled; when
\* complete-multipart fails or is answered otherwise, the completed records are
\* left as they were and the engine returns an error.
C28_CompleteSettlesRecords ==
    [][\A w \in Workers :
          LET r == inv[w]
          IN /\ (OnComplete(w) /\ r.resp.kind = "ok200")
                   => /\ inv'[w].pc = "idle"
                      /\ r.stateKey \notin DOMAIN kvMultipart'
                      /\ r.stateKey \in DOMAIN kvCompleted'
                      /\ kvCompleted'[r.stateKey] = mpu[r.uploadId].key
                      /\ mpu[r.uploadId].status = "completed"
                      /\ mpu[r.uploadId].key \in DOMAIN objects'
                      /\ reply'.eng.res = "complete"
                      /\ reply'.eng.key = mpu[r.uploadId].key
                      /\ reply'.eng.bytes = Size(objects'[mpu[r.uploadId].key])
                      /\ reply'.eng.state = NoState
             /\ (OnComplete(w) /\ r.resp.kind # "ok200")
                   => /\ inv'[w].pc = "idle"
                      /\ kvCompleted' = kvCompleted
                      /\ kvMultipart' = kvMultipart
                      /\ reply'.eng.res = "error"
                      /\ reply'.eng.key = NoKey]_vars

\* an invocation that uploaded two parts has returned "complete" after
\* complete-multipart: the record is written and the checkpoint is gone
C28_Witness ==
    /\ reply.op = "patch" /\ reply.eng.res = "complete"
    /\ reply.eng.nparts = 2 /\ reply.eng.bytes = MidLen
    /\ reply.eng.key \in DOMAIN objects
    /\ \E k \in DOMAIN kvCompleted :
          kvCompleted[k] = reply.eng.key /\ k \notin DOMAIN kvMultipart

\* C29: a PATCH whose body has a Content-Length above 0 sends one signed PUT of
\* the body to <temp location>/data and nothing else: no multipart upload is
\* opened or touched, no invocation of the ingestion engine starts, no
\* checkpoint and no completed record is read or written, and no other object
\* changes.  When the PUT is answered 2xx the session's BytesReceived has grown
\* by the Content-Length and the reply is 202; otherwise the session is left as
\* it was and the reply is an error.
C29_KnownSizeIsOnePut ==
    [][\A u \in Uuids, name \in Repos, p \in Bodies :
          (/\ reply'.op = "patch" /\ reply'.uuid = u
           /\ u \in DOMAIN sessions /\ p.len > 0
           /\ handleUploadChunk(1, u, name, p, FALSE))
             => LET session == sessions[u]
                    data == [k |-> "uploads", loc |-> session.TempLocation,
                             h |-> <<>>]
                IN /\ mpu' = mpu /\ kvMultipart' = kvMultipart
                   /\ kvCompleted' = kvCompleted /\ inv' = inv
                   /\ stream' = stream /\ ingests' = ingests
                   /\ ~reply'.eng.ran
                   /\ reply'.eng.nreq = 1 /\ reply'.eng.ninit = 0
                   /\ reply'.eng.nparts = 0
                   /\ \A k \in (DOMAIN objects \cup DOMAIN objects') \ {data} :
                         /\ k \in DOMAIN objects /\ k \in DOMAIN objects'
                         /\ objects'[k] = objects[k]
                   /\ DOMAIN sessions' = DOMAIN sessions
                   /\ \A v \in DOMAIN sessions \ {u} : sessions'[v] = sessions[v]
                   /\ IF reply'.status = 202
                      THEN /\ data \in DOMAIN objects'
                           /\ objects'[data] = Bytes(p)
                           /\ sessions'[u] = [session EXCEPT
                                 !.BytesReceived = session.BytesReceived + p.len]
                           /\ reply'.range = session.BytesReceived + p.len - 1
                      ELSE /\ reply'.status = 500
                           /\ sessions' = sessions
                           /\ objects' = objects]_vars

\* a second PATCH with a Content-Length has been stored: the session counts
\* the bytes of both bodies
C29_Witness ==
    /\ reply.op = "patch" /\ reply.status = 202
    /\ ~reply.eng.ran /\ reply.eng.nreq = 1
    /\ reply.uuid \in DOMAIN sessions
    /\ sessions[reply.uuid].BytesReceived = 2 * SmallLen
    /\ reply.range = 2 * SmallLen - 1
    /\ ChunkKey(sessions[reply.uuid].TempLocation) \in DOMAIN objects
    /\ mpu = <<>> /\ kvMultipart = EmptyMap /\ kvCompleted = EmptyMap

\* a step of PUT-complete for session u with a well-formed digest and a body
\* of Content-Length above 0
BodyPut(u, name, digest, p) ==
    /\ reply'.op = "put" /\ reply'.uuid = u
    /\ u \in DOMAIN sessions /\ p.len > 0 /\ HasSha256Prefix(digest)
    /\ handleCompleteUpload(u, name, digest, p)

\* what a PUT-complete with a body leaves alone: the multipart uploads, the
\* completed records, the invocations, the other sessions, and every object
\* but the one at the final key (the temp object among them)
BodyPutFrame(u, digest, p) ==
    /\ mpu' = mpu /\ kvCompleted' = kvCompleted /\ inv' = inv
    /\ \A v \in DOMAIN sessions \ {u} :
          v \in DOMAIN sessions' /\ sessions'[v] = sessions[v]
    /\ objects' \in {objects, Put(objects, BlobKey(digest), Bytes(p))}
    /\ faults' \in {faults, faults + 1}

\* C30 as claimed: a PUT-complete with a body of Content-Length above 0 sends
\* one signed PUT of the body to the final key and touches nothing else; when
\* that PUT is answered 2xx (the object is written) the session is deleted and
\* the reply is 201, and when the reply is an error the session is kept.
C30_BodyPutAsClaimed ==
    [][\A u \in Uuids, name \in Repos, p \in Bodies :
          \A digest \in Digests(u, p) :
             BodyPut(u, name, digest, p)
                => /\ BodyPutFrame(u, digest, p)
                   /\ objects' # objects
                         => reply'.status = 201 /\ u \notin DOMAIN sessions'
                   /\ reply'.status # 201 => sessions' = sessions]_vars

\* C30 as the code has it: a PUT-complete with a body of Content-Length above 0
\* sends one signed PUT of the body to the final key and touches nothing else.
\* When no request of it fails the reply is 201; a reply of 201 comes with the
\* object written and the session deleted; otherwise the reply is 500 and the
\* session is kept, whether the PUT failed (nothing written) or the PUT was
\* answered 2xx and the delete of the session failed (the object written).
C30_BodyPutAnswers ==
    [][\A u \in Uuids, name \in Repos, p \in Bodies :
          \A digest \in Digests(u, p) :
             BodyPut(u, name, digest, p)
                => /\ BodyPutFrame(u, digest, p)
                   /\ faults' = faults => reply'.status = 201
                   /\ reply'.status = 201
                         => /\ u \notin DOMAIN sessions'
                            /\ objects' = Put(objects, BlobKey(digest), Bytes(p))
                            /\ faults' = faults
                   /\ reply'.status # 201
                         => /\ reply'.status = 500
                            /\ sessions' = sessions
                            /\ faults' = faults + 1]_vars

\* a PUT-complete with a body was answered 201 for a session that had stored a
\* chunk before: the body is at the final key, the session is gone and the temp
\* object is still there
C30_Witness ==
    /\ reply.op = "put" /\ reply.status = 201 /\ reply.payload.len > 0
    /\ reply.uuid \notin DOMAIN sessions
    /\ BlobKey(reply.digest) \in DOMAIN objects
    /\ objects[BlobKey(reply.digest)] = Bytes(reply.payload)
    /\ \E name \in Repos :
          ChunkKey(TempLocation(name, reply.uuid)) \in DOMAIN objects

\* ------------------------------------------------------------ signer
\* The signing calls of the program.  A payload hash is the literal
\* UNSIGNED-PAYLOAD or the hex SHA-256 of a body.
SignKinds ==
    {"GET", "HEAD", "DELETE", "PUT", "COPY", "INITIATE", "UPLOADPART", "COMPLETE",
     "LIST", "ABORT", "PRESIGN"}
Unsigned == <<"UNSIGNED-PAYLOAD">>
CompleteXml == <<<<"xml", 0, 1>>>>
\* the body the program sends with a request of each kind
BodiesOf(kind) ==
    IF kind \in {"PUT", "UPLOADPART", "PRESIGN"}
    THEN {Bytes([base |-> "A", len |-> SmallLen]), Bytes([base |-> "B", len |-> SmallLen])}
    ELSE IF kind = "COMPLETE" THEN {CompleteXml}
    ELSE {<<>>}
\* the content type the callers of SignPutRequest pass (uploads.go 201, 273,
\* 334); the other callers of signRequest pass none
ContentTypeOf(kind) == IF kind = "PUT" THEN "application/octet-stream" ELSE ""

\* s3auth.go 164-171: the payload hash of signRequest
signRequestHash(contentType) ==
    IF contentType # "" THEN Unsigned ELSE sha256Hex(<<>>)

\* a signer that always hashes the body it is given
SignedPayloadHashOfBody(kind, body) == sha256Hex(body)

\* the payload hash each signing function puts in the canonical request
SignedPayloadHash(kind, body) ==
    CASE kind \in {"GET", "HEAD", "DELETE", "PUT"} ->
            signRequestHash(ContentTypeOf(kind))
      [] kind = "COPY" -> sha256Hex(<<>>)
      [] kind \in {"INITIATE", "LIST", "ABORT"} -> sha256Hex(<<>>)
      [] kind = "UPLOADPART" -> Unsigned
      [] kind = "COMPLETE" -> sha256Hex(body)
      [] kind = "PRESIGN" -> Unsigned

\* the x-amz-content-sha256 header of the signed request; a presigned URL
\* carries no header
SignedHeader(kind, body) ==
    IF kind = "PRESIGN" THEN <<>> ELSE SignedPayloadHash(kind, body)

\* what the secret store answers when it is read: an error or the keys it holds
SecretOutcomes == {"error", "k1", "k2"}

\* a load that reads the secret store again after a failed load
loadCredentialsRetrying(c, o) ==
    IF c.done /\ ~c.err THEN [creds |-> c, read |-> FALSE]
    ELSE [creds |-> IF o = "error"
                    THEN [done |-> TRUE, err |-> TRUE, accessKey |-> "",
                          secretKey |-> ""]
                    ELSE [done |-> TRUE, err |-> FALSE, accessKey |-> o,
                          secretKey |-> o],
          read |-> TRUE]

\* s3auth.go 39-79: loadCredentials with the cache c, the secret store
\* answering o if it is read
loadCredentials(c, o) ==
    IF c.done THEN [creds |-> c, read |-> FALSE]
    ELSE [creds |-> IF o = "error"
                    THEN [done |-> TRUE, err |-> TRUE, accessKey |-> "",
                          secretKey |-> ""]
                    ELSE [done |-> TRUE, err |-> FALSE, accessKey |-> o,
                          secretKey |-> o],
          read |-> TRUE]

\* a signing call of the given kind for a request with the given body
Sign(kind, body, o) ==
    LET load == loadCredentials(creds, o)
    IN /\ signs < MaxSigns
       /\ signs' = signs + 1
       /\ creds' = load.creds
       /\ secretReads' = secretReads + (IF load.read THEN 1 ELSE 0)
       /\ signedReq' =
             IF load.creds.err
             THEN [NoSigned EXCEPT !.kind = kind, !.failed = TRUE]
             ELSE [kind |-> kind, failed |-> FALSE,
                   payloadHash |-> SignedPayloadHash(kind, body),
                   header |-> SignedHeader(kind, body),
                   body |-> body, credential |-> load.creds.accessKey]
       /\ UNCHANGED <<sessions, nextUuid, store, inv, faults, reply, hist,
                      limiter, walk>>

\* One instance of the program signs up to MaxSigns requests of any kind; the
\* secret store may fail or answer whenever it is read.
NextSign ==
    \E kind \in SignKinds : \E body \in BodiesOf(kind), o \in SecretOutcomes :
       Sign(kind, body, o)

SignSpec == Init /\ [][NextSign]_vars

\* the requests of a reply, by operation
ReqsOf(rp, op) == {i \in 1 .. Len(rp.reqs) : rp.reqs[i].op = op}
Worked(rp, op) == \E i \in ReqsOf(rp, op) : rp.reqs[i].res = "ok200"

\* C31: a PUT-complete without a body on a session with bytes received sends
\* the COPY first; it sends the GET only after a COPY that was not answered
\* 2xx, and the PUT only after a GET that was answered 2xx; and it answers 201
\* (the session removed, and the temp object deleted when its delete was
\* answered 2xx) only if the COPY was answered 2xx or the GET and the PUT both
\* were.
C31_CopyThenFallback ==
    [][\A u \in Uuids :
          (/\ reply' # reply /\ reply'.op = "put" /\ reply'.uuid = u
           /\ u \in DOMAIN sessions /\ sessions[u].BytesReceived > 0
           /\ reply'.payload.len = 0 /\ HasSha256Prefix(reply'.digest))
             => LET rq == reply'.reqs
                    sourceKey == [k |-> "uploads", loc |-> sessions[u].TempLocation,
                                  h |-> <<>>]
                IN /\ Len(rq) >= 2
                   /\ rq[1].op = "COPY"
                   /\ ReqsOf(reply', "COPY") = {1}
                   /\ ReqsOf(reply', "GET") \subseteq {2}
                   /\ ReqsOf(reply', "PUT") \subseteq {3}
                   /\ ReqsOf(reply', "GET") # {} <=> rq[1].res # "ok200"
                   /\ ReqsOf(reply', "PUT") # {} <=> Worked(reply', "GET")
                   /\ reply'.status = 201
                         => /\ \/ Worked(reply', "COPY")
                               \/ Worked(reply', "GET") /\ Worked(reply', "PUT")
                            /\ u \notin DOMAIN sessions'
                            /\ sourceKey \in DOMAIN objects
                            /\ BlobKey(reply'.digest) \in DOMAIN objects'
                            /\ objects'[BlobKey(reply'.digest)] = objects[sourceKey]
                            /\ Worked(reply', "DELETE")
                                  => sourceKey \notin DOMAIN objects'
                   /\ reply'.status # 201 => u \in DOMAIN sessions']_vars

\* a PUT-complete without a body was answered 201 through the fallback: the
\* COPY failed, the GET and the PUT were answered 2xx, the temp object and the
\* session are gone
C31_Witness ==
    /\ reply.op = "put" /\ reply.status = 201 /\ reply.payload.len = 0
    /\ Len(reply.reqs) = 5
    /\ reply.reqs[1].op = "COPY" /\ reply.reqs[1].res # "ok200"
    /\ reply.reqs[2] = [op |-> "GET", res |-> "ok200"]
    /\ reply.reqs[3] = [op |-> "PUT", res |-> "ok200"]
    /\ reply.reqs[4] = [op |-> "DELETE", res |-> "ok200"]
    /\ reply.uuid \notin DOMAIN sessions
    /\ BlobKey(reply.digest) \in DOMAIN objects
    /\ \A name \in Repos :
          ChunkKey(TempLocation(name, reply.uuid)) \notin DOMAIN objects

\* a backend step of the PUT-complete answered by rp failed: the direct PUT,
\* the GET or the PUT of the fallback, or the delete of the session
StepFailed(rp) ==
    \E i \in 1 .. Len(rp.reqs) :
       /\ rp.reqs[i].op \in {"PUT", "GET", "KVDELETE"}
       /\ rp.reqs[i].res # "ok200"

\* C32: when a backend step of a PUT-complete fails (the direct PUT, the GET or
\* the PUT of the fallback after a COPY that did not work, or the delete of the
\* session), the reply is an error, the sessions are as they were, every object
\* that was at a final key is still there, and what the request wrote at its
\* final key before the failure stays written.
C32_FailureRollsNothingBack ==
    [][\A u \in Uuids :
          (/\ reply' # reply /\ reply'.op = "put" /\ reply'.uuid = u
           /\ u \in DOMAIN sessions /\ StepFailed(reply'))
             => LET finalKey == BlobKey(reply'.digest)
                    sourceKey == [k |-> "uploads", loc |-> sessions[u].TempLocation,
                                  h |-> <<>>]
                IN /\ reply'.status >= 400
                   /\ sessions' = sessions
                   /\ kvCompleted' = kvCompleted /\ mpu' = mpu
                   /\ \A k \in DOMAIN objects :
                         k.k = "blobs/sha256" => k \in DOMAIN objects'
                   /\ \A k \in DOMAIN objects \ {finalKey} :
                         k.k = "blobs/sha256" => objects'[k] = objects[k]
                   /\ (Worked(reply', "COPY") \/ Worked(reply', "PUT"))
                         => /\ finalKey \in DOMAIN objects'
                            /\ objects'[finalKey]
                                  = IF reply'.payload.len > 0
                                    THEN Bytes(reply'.payload)
                                    ELSE objects[sourceKey]
                   /\ ~(Worked(reply', "COPY") \/ Worked(reply', "PUT"))
                         => objects' = objects]_vars

\* a PUT-complete copied the temp object to the final key and deleted it, and
\* then failed to delete the session: the reply is 500, the session is kept and
\* the blob stays at the final key
C32_Witness ==
    /\ reply.op = "put" /\ reply.status = 500 /\ reply.payload.len = 0
    /\ Worked(reply, "COPY") /\ Worked(reply, "DELETE")
    /\ ReqsOf(reply, "KVDELETE") # {} /\ ~Worked(reply, "KVDELETE")
    /\ reply.uuid \in DOMAIN sessions
    /\ BlobKey(reply.digest) \in DOMAIN objects
    /\ ChunkKey(sessions[reply.uuid].TempLocation) \notin DOMAIN objects

\* a session whose ExpiresAt has passed
Expired(u) == u \in DOMAIN sessions /\ now > sessions[u].ExpiresAt

C34_CredentialsLoadedOnce ==
    [][/\ secretReads' <= 1
       /\ creds.done => creds' = creds /\ secretReads' = secretReads
       /\ signs' # signs
             => /\ creds'.done
                /\ ~creds.done => secretReads' = secretReads + 1
                /\ signedReq'.failed <=> creds'.err
                /\ creds.done /\ creds.err => signedReq'.failed
                /\ creds.done /\ ~creds.err
                      => signedReq'.credential = creds.accessKey]_vars

\* MaxSigns signing calls after a failed load: all failed, the secret store read
\* once
C34_Witness ==
    /\ signs = MaxSigns /\ secretReads = 1
    /\ creds.done /\ creds.err /\ signedReq.failed

\* C35 as claimed: the payload hash of a signed request is UNSIGNED-PAYLOAD
\* exactly for upload-part, presigned PUT and COPY, and the hex SHA-256 of the
\* request's body for every other signed request.
C35_UnsignedAsClaimed ==
    (signs > 0 /\ ~signedReq.failed)
       => /\ signedReq.payloadHash = Unsigned
                <=> signedReq.kind \in {"UPLOADPART", "PRESIGN", "COPY"}
          /\ signedReq.payloadHash # Unsigned
                => signedReq.payloadHash = <<"sha256", signedReq.body>>

\* C35 as the code has it: the payload hash of a signed request is
\* UNSIGNED-PAYLOAD exactly for upload-part, presigned PUT and plain PUT (a
\* PUT signed with a content type), and the hex SHA-256 of the request's body
\* for every other signed request: of the empty body for GET, HEAD, DELETE,
\* COPY, initiate, list-parts and abort, of the XML body for complete.  The
\* x-amz-content-sha256 header carries the same value on every request that
\* has the header (a presigned URL has none).
C35_UnsignedForUploads ==
    (signs > 0 /\ ~signedReq.failed)
       => /\ signedReq.payloadHash = Unsigned
                <=> signedReq.kind \in {"UPLOADPART", "PRESIGN", "PUT"}
          /\ signedReq.payloadHash # Unsigned
                => /\ signedReq.payloadHash = <<"sha256", signedReq.body>>
                   /\ signedReq.kind # "COMPLETE" => signedReq.body = <<>>
          /\ signedReq.kind # "PRESIGN"
                => signedReq.header = signedReq.payloadHash
          /\ signedReq.kind = "PRESIGN" => signedReq.header = <<>>

\* a COPY has been signed with the hash of the empty body
C35_Witness ==
    /\ ~signedReq.failed /\ signedReq.kind = "COPY"
    /\ signedReq.payloadHash = <<"sha256", <<>>>>
    /\ signedReq.header = signedReq.payloadHash


\* C36: whenever a PUT-complete is answered 201 for a digest, an object is at
\* the final key of that digest when the reply is made; in particular a
\* PUT-complete without a body on a session that received no bytes is not
\* answered 201 with nothing written.
C36_CreatedMeansStored ==
    [][(reply' # reply /\ reply'.op = "put" /\ reply'.status = 201)
          => BlobKey(reply'.digest) \in DOMAIN objects']_vars


\* C37: after a PATCH with a Content-Length is accepted, the object at
\* <temp location>/data holds every chunk accepted in the session so far, in
\* order, and its size is the session's BytesReceived.
C37_TempHoldsAllChunks ==
    [][\A u \in Uuids :
          (/\ reply' # reply /\ reply'.op = "patch" /\ reply'.uuid = u
           /\ reply'.status = 202 /\ reply'.eng.nreq = 1
           /\ u \in DOMAIN sessions')
             => LET chunkKey == ChunkKey(sessions'[u].TempLocation)
                IN /\ chunkKey \in DOMAIN objects'
                   /\ objects'[chunkKey] = Flat(sent'[u])
                   /\ Size(objects'[chunkKey]) = sessions'[u].BytesReceived]_vars


\* Sessions addressed through any repository name: POST in either repository,
\* then PATCH with a Content-Length and PUT-complete on any session under
\* either name.  No backend failure.
NextCross ==
    \/ \E name \in BlobRepos : NoFailure /\ handleInitiateUpload(name)
    \/ \E u \in Uuids, name \in BlobRepos :
          /\ NoFailure
          /\ Sends(u, Blob, FALSE)
          /\ handleUploadChunk(1, u, name, Blob, FALSE)
    \/ \E u \in Uuids, name \in BlobRepos, p \in BlobBodies :
          /\ NoFailure
          /\ handleCompleteUpload(u, name, sha256Hex(Bytes(Blob)), p)

CrossSpec == Init /\ [][NextCross]_vars

\* C38: a PATCH or a PUT-complete at /v2/<name>/blobs/uploads/<uuid> is
\* accepted (202, 201) only when name is the repository the session was opened
\* for.
C38_SessionBoundToRepo ==
    [][\A u \in DOMAIN sessions, name \in BlobRepos, p \in BlobBodies :
          /\ (handleUploadChunk(1, u, name, p, FALSE) /\ reply'.status = 202)
                => name = sessions[u].Repo
          /\ (handleCompleteUpload(u, name, sha256Hex(Bytes(Blob)), p)
                /\ reply'.status = 201)
                => name = sessions[u].Repo]_vars


\* C39: the BytesReceived of a session never decreases: it is 0 when the
\* session is opened, no step but a PATCH changes it, and every step leaves it
\* equal to or greater than it was, as long as the session exists.
C39_BytesReceivedGrows ==
    [][/\ nextUuid' # nextUuid
             => \A u \in DOMAIN sessions' \ DOMAIN sessions :
                   sessions'[u].BytesReceived = 0
       /\ \A u \in DOMAIN sessions \cap DOMAIN sessions' :
             sessions'[u].BytesReceived >= sessions[u].BytesReceived]_vars


\* ------------------------------------------------------------ pagination
\* Names are sequences of characters; the empty sequence is the empty string.
PageNames == { <<"a">>, <<"b">>, <<"v", "1">>, <<"l", "/", "x">> }
PageSizes == (0 .. MaxPage) \cup {MaxPageSize + 1}

\* strings.ReplaceAll
RECURSIVE ReplaceAll(_, _, _)
ReplaceAll(s, old, new) ==
    IF Len(s) < Len(old) THEN s
    ELSE IF SubSeq(s, 1, Len(old)) = old
    THEN new \o ReplaceAll(SubSeq(s, Len(old) + 1, Len(s)), old, new)
    ELSE <<s[1]>> \o ReplaceAll(Tail(s), old, new)

\* a query value as a client writes it: as it stands (the way the Link header
\* carries it) or with its slashes and colons percent-encoded
PercentEncoded(s) ==
    ReplaceAll(ReplaceAll(s, <<":">>, <<"%", "3", "A">>), <<"/">>, <<"%", "2", "F">>)
Encodings(s) == {s, PercentEncoded(s)}

\* part_001 325-334: the value of a key of the query, "" when it has none
extractQueryParam(query, key) ==
    IF key \in DOMAIN query
    THEN ReplaceAll(ReplaceAll(query[key], <<"%", "3", "A">>, <<":">>),
                    <<"%", "2", "F">>, <<"/">>)
    ELSE <<>>

\* cosmetics.go 200-219; the digits of n are in the query as a number
ParsePaginationParams(query) ==
    LET asked == IF "n" \in DOMAIN query THEN query["n"] ELSE DefaultPageSize
        n == IF asked <= 0 THEN DefaultPageSize
             ELSE IF asked > MaxPageSize THEN MaxPageSize ELSE asked
    IN [n |-> n, last |-> extractQueryParam(query, "last")]

\* a pagination that starts at the item named by last, not after it
PaginateFromLast(items, n, last) ==
    LET found == {i \in 1 .. Len(items) : items[i] = last}
        startIdx == IF last # <<>> /\ found # {}
                    THEN (CHOOSE i \in found : \A j \in found : i <= j) - 1
                    ELSE 0
        endIdx == Min(startIdx + n, Len(items))
        page == SubSeq(items, startIdx + 1, endIdx)
        hasMore == endIdx < Len(items)
    IN [page |-> page,
        nextLast |-> IF hasMore /\ Len(page) > 0 THEN page[Len(page)] ELSE <<>>,
        hasMore |-> hasMore]

\* cosmetics.go 222-250
PaginateStringSlice(items, n, last) ==
    LET found == {i \in 1 .. Len(items) : items[i] = last}
        startIdx == IF last # <<>> /\ found # {}
                    THEN CHOOSE i \in found : \A j \in found : i <= j
                    ELSE 0
        endIdx == Min(startIdx + n, Len(items))
        page == SubSeq(items, startIdx + 1, endIdx)
        hasMore == endIdx < Len(items)
    IN [page |-> page,
        nextLast |-> IF hasMore /\ Len(page) > 0 THEN page[Len(page)] ELSE <<>>,
        hasMore |-> hasMore]

\* cosmetics.go 192-197: the Link header, NoLink when none is set
AddPaginationHeaders(n, last, hasMore) ==
    IF hasMore /\ last # <<>> THEN [n |-> n, last |-> last] ELSE NoLink

\* part_002 290-314: the tag list with newTag, appended when it is new
updateTagsList(newTag) ==
    /\ ~walk.asked
    /\ Len(walk.items) < MaxItems
    /\ \A i \in 1 .. Len(walk.items) : walk.items[i] # newTag
    /\ walk' = [walk EXCEPT !.items = Append(@, newTag)]
    /\ UNCHANGED <<sessions, nextUuid, store, inv, faults, reply, hist,
                   limiter, signer>>

\* part_002 345-378 handleListTags (and 380-412 handleCatalog, the same on the
\* repository list): GET /v2/<name>/tags/list?n=<n>&last=<last>
handleListTags(query) ==
    LET params == ParsePaginationParams(query)
        res == PaginateStringSlice(walk.items, params.n, params.last)
        link == IF res.hasMore
                THEN AddPaginationHeaders(params.n, res.nextLast, res.hasMore)
                ELSE NoLink
    IN /\ walk' = [walk EXCEPT !.n = query["n"],
                               !.pages = Append(@, res.page),
                               !.link = link,
                               !.asked = TRUE]
       /\ UNCHANGED <<sessions, nextUuid, store, inv, faults, reply, hist,
                      limiter, signer>>

\* the query of the client's next request: its page size, and the last item of
\* the page before once it has one
Queries ==
    IF ~walk.asked
    THEN {[k \in {"n"} |-> n] : n \in PageSizes}
    ELSE LET before == walk.pages[Len(walk.pages)]
         IN IF walk.link = NoLink \/ before = <<>> THEN {}
            ELSE {[k \in {"n", "last"} |-> IF k = "n" THEN walk.n ELSE e] :
                     e \in Encodings(before[Len(before)])}

\* Tags are pushed to a repository; then a client pages through its tag list,
\* following the list until a reply has no Link header.
NextPage ==
    \/ \E newTag \in PageNames : updateTagsList(newTag)
    \/ \E query \in Queries : handleListTags(query)

PageSpec == Init /\ [][NextPage]_vars

RECURSIVE JoinPages(_)
JoinPages(pages) ==
    IF pages = <<>> THEN <<>> ELSE pages[1] \o JoinPages(Tail(pages))

\* C40: a client that asks for pages of size n and passes the last item of
\* each page as last until a reply has no next link is given every item of the
\* list exactly once, in the order of the list; and a reply has a next link
\* exactly when items remain after its page.
C40_PagesVisitEachItemOnce ==
    walk.asked
       => LET seen == JoinPages(walk.pages)
              size == ParsePaginationParams([k \in {"n"} |-> walk.n]).n
          IN /\ Len(seen) <= Len(walk.items)
             /\ seen = SubSeq(walk.items, 1, Len(seen))
             /\ (walk.link # NoLink) <=> (Len(seen) < Len(walk.items))
             /\ walk.link = NoLink => seen = walk.items
             /\ \A i \in 1 .. Len(walk.pages) :
                   /\ Len(walk.pages[i]) <= size
                   /\ i < Len(walk.pages) => Len(walk.pages[i]) = size

\* a walk of three items in pages of two has ended after two pages, having
\* passed a name with a slash as last
C40_Witness ==
    /\ walk.asked /\ walk.link = NoLink /\ walk.n = 2
    /\ Len(walk.items) = 3 /\ Len(walk.pages) = 2
    /\ walk.pages[1][2] = <<"l", "/", "x">>
    /\ JoinPages(walk.pages) = walk.items

====
